---------------------------- MODULE Spec2Model ----------------------------
(***************************************************************************)
(* State-machine model of the clamav-operator control plane:               *)
(*   - NodeScanReconciler      (controllers/nodescan_controller.go)        *)
(*   - ClusterScanReconciler   (controllers/clusterscan_controller.go)     *)
(*   - ScanScheduleReconciler  (scanschedule controller)                   *)
(* together with the platform events the reconcilers react to (Job         *)
(* progress, TTL removal, node / policy churn, deletions).                 *)
(*                                                                         *)
(* Each Reconcile is one atomic action.  An API write that can fail is a   *)
(* failure point: the action takes the failing call as an input, keeps     *)
(* what was written before it and drops the rest, as the early return in   *)
(* the code does.                                                          *)
(***************************************************************************)
EXTENDS Naturals, Integers, Sequences, FiniteSets, TLC

(***************************************************************************)
(* Bounds of the model.                                                    *)
(***************************************************************************)
MaxNodes == 2

MaxLogLen == 2

MaxJobCreations == 2

MaxNotifications == 2

\* The clock runs from 0 to MaxTime.
MaxTime == 1

\* The modelled cron expression fires every CronPeriod time units.
CronPeriod == 1

\* The history limits of the modelled schedule, when it sets them.
HistoryLimit == 1

\* Bounds of the cache manager's inputs.
MaxPaths == 2

MaxReportLen == 1

MaxBaselineInterval == 1

MaxScanCount == 2

MaxTicks == 1

MaxMapStart == 1

\* The self-subject access reviews that are not answered "allowed".
MaxReviewFaults == 1

\* Bounds of the scanner runs on one node.
MaxFullScanInterval == 2

MaxScanners == 2

MaxRuns == 4

(***************************************************************************)
(* Program constants.                                                      *)
(***************************************************************************)
MaxJobNameLen == 63

MaxInfectedFiles == 100

BackoffLimit == 3

DefaultConcurrent == 3

\* FULL_SCAN_INTERVAL when the variable is not set
DefaultFullScanInterval == 10

\* successLimit := int32(10)
DefaultSuccessfulScansHistoryLimit == 10

\* failedLimit := int32(3)
DefaultFailedScansHistoryLimit == 3

\* constructJobForNodeScan's defaults.
DefaultMaxConcurrent == 5

DefaultFileTimeout == 300000

DefaultMaxFileSize == 104857600

\* The NodeScan reconciler polls a running Job every 30 seconds.
RequeueSeconds == 30

\* The cache manager's constants.
CacheLimit == 10000

SecondsPerHour == 3600

DefaultBaselineInterval == 7

DefaultCacheExpiration == 168

DefaultMinTimeBetweenScans == 6

(***************************************************************************)
(* Names.                                                                  *)
(***************************************************************************)
NodeName(i) == "node-" \o ToString(i)

Nodes == {NodeName(i) : i \in 1..MaxNodes}

ClusterScanName == "scan"

Namespace == "default"

PolicyName == "policy"

StandaloneName == "s1"

\* createNodeScanForNode: Name = fmt.Sprintf("%s-%s", clusterScan.Name, nodeName)
ChildName(cs, node) == cs \o "-" \o node

NodeScanNames == {StandaloneName} \cup {ChildName(ClusterScanName, n) : n \in Nodes}

\* jobName := fmt.Sprintf("nodescan-%s", nodeScan.Name), cut to 63 characters
JobName(name) ==
    LET jobName == "nodescan-" \o name
    IN  IF Len(jobName) > MaxJobNameLen THEN SubSeq(jobName, 1, MaxJobNameLen) ELSE jobName

JobNames == {JobName(n) : n \in NodeScanNames}

(***************************************************************************)
(* Phases.                                                                 *)
(***************************************************************************)
NodeScanPhasePending == "Pending"

NodeScanPhaseRunning == "Running"

NodeScanPhaseCompleted == "Completed"

NodeScanPhaseFailed == "Failed"

NodeScanTerminal == {NodeScanPhaseCompleted, NodeScanPhaseFailed}

(***************************************************************************)
(* State.                                                                  *)
(***************************************************************************)
VARIABLES
    nodes,          \* names of the Node objects that exist
    policy,         \* the ScanPolicy object "policy"
    nodeScans,      \* NodeScan objects by name
    jobs,           \* batch Jobs by name
    notifications,  \* history: sendNotifications dispatches per NodeScan
    jobCreations,   \* history: successful Job creates per NodeScan
    labelled,       \* names of the nodes that carry the label the selector matches
    clusterScan,    \* the ClusterScan object "scan"
    snapshot,       \* history: the node set of the first reconcile that wrote a status
    now,            \* the clock, in cron periods' units
    schedule,       \* the ScanSchedule object "nightly"
    clusterScans,   \* the ClusterScans the schedule created, by creation time
    result,         \* what the last ScanSchedule reconcile returned
    scanCache,      \* the ScanCacheResource "scancache-node-1"
    scanRun,        \* history: how the last scan of node-1 ran and what it reported
    clock,          \* time.Now().Unix() as the cache manager reads it
    manager,        \* the operator process: its flags, its cluster, how far main got
    scannerConfig,  \* INCREMENTAL_CONFIG of the scanner pods of node-1
    marker,         \* content of node-1's smart counter file
    scanners,       \* the scanner processes running on node-1
    strategies      \* history: the effective strategies resolved on node-1, in order

nsVars == <<nodes, policy, nodeScans, jobs, notifications, jobCreations>>

csVars == <<labelled, clusterScan, snapshot>>

schedVars == <<now, schedule, clusterScans, result>>

cacheVars == <<scanCache, scanRun, clock>>

procVars == <<manager, scannerConfig, marker, scanners, strategies>>

vars == <<nsVars, csVars, schedVars, cacheVars, procVars>>

\* corev1.ResourceRequirements: CPU and memory requests, CPU and memory limits.
ResourceRequirements(cpuRequest, memoryRequest, cpuLimit, memoryLimit) ==
    [nil |-> FALSE, requests |-> [cpu |-> cpuRequest, memory |-> memoryRequest],
     limits |-> [cpu |-> cpuLimit, memory |-> memoryLimit]]

\* The nil *corev1.ResourceRequirements.
NoResources ==
    [nil |-> TRUE, requests |-> [cpu |-> "", memory |-> ""],
     limits |-> [cpu |-> "", memory |-> ""]]

\* An object that does not exist.
NoNodeScan ==
    [exists |-> FALSE, namespace |-> "", nodeName |-> "", scanPolicy |-> "",
     clusterscan |-> "", priority |-> "", paths |-> <<>>, maxConcurrent |-> 0,
     fileTimeout |-> 0, maxFileSize |-> 0, resources |-> NoResources,
     finalizer |-> FALSE, deleting |-> FALSE,
     phase |-> "", jobRef |-> "", completionTime |-> FALSE,
     filesScanned |-> 0, filesInfected |-> 0, filesSkipped |-> 0, errorCount |-> 0,
     infectedFiles |-> <<>>, conditions |-> {}]

\* A NodeScan as the API server stores it right after creation: empty status.
NewNodeScan(node, pol, parent) ==
    [NoNodeScan EXCEPT !.exists = TRUE, !.namespace = Namespace, !.nodeName = node,
                       !.scanPolicy = pol, !.clusterscan = parent]

\* The scanner container's environment, as far as it depends on the NodeScan
\* and its policy.
NoEnv == [PATHS_TO_SCAN |-> "", MAX_CONCURRENT |-> "", FILE_TIMEOUT |-> "", MAX_FILE_SIZE |-> ""]

NoJob ==
    [exists |-> FALSE, namespace |-> "", owner |-> "", nodeName |-> "", env |-> NoEnv,
     resources |-> NoResources, succeeded |-> 0, failed |-> 0, log |-> <<>>]

NoClusterScan ==
    [exists |-> FALSE, nodeSelector |-> FALSE, scanPolicy |-> "", concurrent |-> 0,
     finalizer |-> FALSE, deleting |-> FALSE,
     phase |-> "", completionTime |-> FALSE,
     totalNodes |-> 0, completedNodes |-> 0, runningNodes |-> 0, failedNodes |-> 0,
     infectedNodes |-> 0, totalFilesScanned |-> 0, totalFilesInfected |-> 0,
     nodeScans |-> {}]

\* A ClusterScan as the API server stores it right after creation.
NewClusterScan(selector, pol, concurrent) ==
    [NoClusterScan EXCEPT !.exists = TRUE, !.nodeSelector = selector, !.scanPolicy = pol,
                          !.concurrent = concurrent]

NoSnapshot == [taken |-> FALSE, nodes |-> {}]

NoPolicy ==
    [exists |-> FALSE, notifications |-> FALSE, lastUsed |-> FALSE,
     paths |-> <<>>, maxConcurrent |-> 0, fileTimeout |-> 0, maxFileSize |-> 0,
     resources |-> NoResources]

(***************************************************************************)
(* Scanner log lines (one JSON object per line, or plain text).            *)
(***************************************************************************)
CompletionMessage == "Scan termine avec succes"

Line(json, message, alert, path, scanned, infected) ==
    [json |-> json, message |-> message, alert |-> alert, file_path |-> path,
     files_scanned |-> scanned, files_infected |-> infected,
     files_skipped |-> 0, errors_count |-> 0]

TextLine == Line(FALSE, "", "", 0, 0, 0)

InfoLine == Line(TRUE, "Progression", "", 0, 0, 0)

CompletionLine(scanned, infected) == Line(TRUE, CompletionMessage, "", 0, scanned, infected)

\* file_path is a path id; 0 stands for the empty string.
InfectedLine(path) == Line(TRUE, "Fichier infecte detecte", "INFECTED_FILE", path, 0, 0)

LineSet ==
    {TextLine, InfoLine, InfectedLine(1), InfectedLine(0)}
        \cup {CompletionLine(s, i) : s \in 0..1, i \in 0..1}

RECURSIVE SeqsUpTo(_, _)
SeqsUpTo(S, n) ==
    IF n = 0 THEN {<<>>}
    ELSE LET shorter == SeqsUpTo(S, n - 1)
         IN  shorter \cup {Append(s, x) : s \in {t \in shorter : Len(t) = n - 1}, x \in S}

\* A log of more than MaxInfectedFiles infected-file lines, then the summary.
LongLog ==
    [i \in 1..(MaxInfectedFiles + 2) |->
        IF i <= MaxInfectedFiles + 1 THEN InfectedLine(i)
        ELSE CompletionLine(MaxInfectedFiles + 1, MaxInfectedFiles + 1)]

AnyLogs == SeqsUpTo(LineSet, MaxLogLen) \cup {LongLog}

\* What a scanner run that reaches its final log line prints (scanner/src/index.js).
CleanLog == <<TextLine, CompletionLine(1, 0)>>

InfectedLog == <<InfectedLine(1), CompletionLine(1, 1)>>

\* The scanner exits 0 on SIGTERM before it prints its final line.
InterruptedLog == <<InfectedLine(1)>>

CompletedLogs == {CleanLog, InfectedLog}

ScannerLogs == CompletedLogs \cup {InterruptedLog}

(***************************************************************************)
(* parseJobResults: the status fields read from the pod log.               *)
(***************************************************************************)
\* The scanner loop over the log lines: lines that are not JSON are skipped,
\* every completion line overwrites the counters (the last one wins), every
\* INFECTED_FILE line with a path appends the path.
IsCompletion(entry) == entry.json /\ entry.message = CompletionMessage

IsInfectedFile(entry) == entry.json /\ entry.alert = "INFECTED_FILE" /\ entry.file_path # 0

ParseLines(log) ==
    LET completions == SelectSeq(log, IsCompletion)
        infected == SelectSeq(log, IsInfectedFile)
        last == completions[Len(completions)]
    IN  [filesScanned |-> IF Len(completions) = 0 THEN 0 ELSE last.files_scanned,
         filesInfected |-> IF Len(completions) = 0 THEN 0 ELSE last.files_infected,
         filesSkipped |-> IF Len(completions) = 0 THEN 0 ELSE last.files_skipped,
         errorCount |-> IF Len(completions) = 0 THEN 0 ELSE last.errors_count,
         infectedFiles |-> [i \in 1..Len(infected) |-> infected[i].file_path]]

LimitInfectedFiles(infectedFiles) ==
    IF Len(infectedFiles) > MaxInfectedFiles
    THEN SubSeq(infectedFiles, 1, MaxInfectedFiles)
    ELSE infectedFiles

\* What a scanner run that ends in a fatal error prints: no final log line.
FailedPodLog == <<InfoLine>>

\* access says which log is read: "ok" the log of the pod that succeeded,
\* "failedpod" the log of a pod of an earlier, failed attempt (podList.Items[0]
\* is taken whatever its phase), "nopod" none (no pods found for job),
\* "error" none (log stream failed).
\* On an error the NodeScan status is left as it was.
parseJobResults(ns, job, access) ==
    IF access \in {"nopod", "error"} THEN ns
    ELSE LET r == ParseLines(IF access = "failedpod" THEN FailedPodLog ELSE job.log)
         IN  [ns EXCEPT !.filesScanned = r.filesScanned,
                        !.filesInfected = r.filesInfected,
                        !.filesSkipped = r.filesSkipped,
                        !.errorCount = r.errorCount,
                        !.infectedFiles = LimitInfectedFiles(r.infectedFiles)]


(***************************************************************************)
(* NodeScanReconciler.                                                     *)
(***************************************************************************)
\* The API calls of NodeScanReconciler.Reconcile that may return an error.
NodeScanFailPoints == {"none", "finalizer", "initStatus", "create", "status", "deleteJob"}

LogAccess == {"ok", "failedpod", "nopod", "error"}

\* An updateStatus that records no condition.
updateStatusPhaseOnly(ns, phase, conditionType, status) == [ns EXCEPT !.phase = phase]

\* updateStatus: set the phase and add the condition, or replace the one of
\* the same type when its status differs.
updateStatus(ns, phase, conditionType, status) ==
    LET condition == [type |-> conditionType, status |-> status]
        same == {c \in ns.conditions : c.type = conditionType}
    IN  [ns EXCEPT !.phase = phase,
                   !.conditions =
                       IF same = {} THEN @ \cup {condition}
                       ELSE IF \E c \in same : c.status # status
                            THEN (@ \ same) \cup {condition}
                            ELSE @]

\* strings.Join.
RECURSIVE Join(_, _)
Join(elems, sep) ==
    IF elems = <<>> THEN ""
    ELSE IF Len(elems) = 1 THEN elems[1]
    ELSE elems[1] \o sep \o Join(Tail(elems), sep)

DefaultScanPaths == <<"/host/var/lib", "/host/opt">>

\* defaults.go: the resource bands by priority.
DefaultScannerResources == ResourceRequirements("100m", "256Mi", "1000m", "512Mi")

HighPriorityScannerResources == ResourceRequirements("500m", "512Mi", "2000m", "1Gi")

LowPriorityScannerResources == ResourceRequirements("50m", "128Mi", "500m", "256Mi")

GetResourcesForPriority(priority) ==
    CASE priority = "high" -> HighPriorityScannerResources
      [] priority = "low" -> LowPriorityScannerResources
      [] OTHER -> DefaultScannerResources

\* A constructJobForNodeScan that does not look at the policy.
constructJobIgnoringPolicy(name, nodeScan, scanPolicy) ==
    [exists |-> TRUE, namespace |-> nodeScan.namespace, owner |-> name,
     nodeName |-> nodeScan.nodeName,
     env |-> [PATHS_TO_SCAN |->
                  Join(IF nodeScan.paths = <<>> THEN DefaultScanPaths ELSE nodeScan.paths, ","),
              MAX_CONCURRENT |->
                  ToString(IF nodeScan.maxConcurrent = 0 THEN DefaultMaxConcurrent
                           ELSE nodeScan.maxConcurrent),
              FILE_TIMEOUT |->
                  ToString(IF nodeScan.fileTimeout = 0 THEN DefaultFileTimeout
                           ELSE nodeScan.fileTimeout),
              MAX_FILE_SIZE |->
                  ToString(IF nodeScan.maxFileSize = 0 THEN DefaultMaxFileSize
                           ELSE nodeScan.maxFileSize)],
     resources |-> IF nodeScan.resources.nil
                   THEN ResourceRequirements("500m", "512Mi", "2000m", "1Gi")
                   ELSE nodeScan.resources,
     succeeded |-> 0, failed |-> 0, log |-> <<>>]

\* A constructJobForNodeScan that leaves the pod's node to the scheduler.
constructJobUnpinned(name, nodeScan, scanPolicy) ==
    [constructJobIgnoringPolicy(name, nodeScan, scanPolicy) EXCEPT !.nodeName = ""]

\* constructJobForNodeScan followed by r.Create: the Job as created.
\* scanPolicy is the fetched policy, or NoPolicy for the nil pointer.
constructJobForNodeScan(name, nodeScan, scanPolicy) ==
    LET paths == IF Len(nodeScan.paths) = 0 /\ scanPolicy.exists
                 THEN scanPolicy.paths ELSE nodeScan.paths
        maxConcurrent == IF nodeScan.maxConcurrent = 0 /\ scanPolicy.exists
                         THEN scanPolicy.maxConcurrent ELSE nodeScan.maxConcurrent
        fileTimeout == IF nodeScan.fileTimeout = 0 /\ scanPolicy.exists
                       THEN scanPolicy.fileTimeout ELSE nodeScan.fileTimeout
        maxFileSize == IF nodeScan.maxFileSize = 0 /\ scanPolicy.exists
                       THEN scanPolicy.maxFileSize ELSE nodeScan.maxFileSize
        envVars ==
            [PATHS_TO_SCAN |-> Join(IF Len(paths) = 0 THEN DefaultScanPaths ELSE paths, ","),
             MAX_CONCURRENT |->
                 ToString(IF maxConcurrent = 0 THEN DefaultMaxConcurrent ELSE maxConcurrent),
             FILE_TIMEOUT |->
                 ToString(IF fileTimeout = 0 THEN DefaultFileTimeout ELSE fileTimeout),
             MAX_FILE_SIZE |->
                 ToString(IF maxFileSize = 0 THEN DefaultMaxFileSize ELSE maxFileSize)]
        resources == IF ~nodeScan.resources.nil THEN nodeScan.resources
                     ELSE IF scanPolicy.exists /\ ~scanPolicy.resources.nil
                     THEN scanPolicy.resources
                     ELSE ResourceRequirements("500m", "512Mi", "2000m", "1Gi")
    IN  [exists |-> TRUE, namespace |-> nodeScan.namespace, owner |-> name,
         nodeName |-> nodeScan.nodeName, env |-> envVars, resources |-> resources,
         succeeded |-> 0, failed |-> 0, log |-> <<>>]

\* What one reconcile of a NodeScan that is not being deleted leaves behind:
\*   ns      the NodeScan as stored when Reconcile returns
\*   job     the Job named JobName(name)
\*   created whether r.Create(job) succeeded
\*   notify  whether sendNotifications was called
\*   used    whether updatePolicyStats was called
Outcome(ns, job, created, notify, used) ==
    [ns |-> ns, job |-> job, created |-> created, notify |-> notify, used |-> used]

NodeScanSync(name, ns, job, fail, access) ==
    LET s1 == [ns EXCEPT !.finalizer = TRUE]
    IN  IF ~ns.finalizer /\ fail = "finalizer"
        THEN Outcome(ns, job, FALSE, FALSE, FALSE)
        ELSE IF ns.nodeName \notin nodes
        THEN IF fail = "status"
             THEN Outcome(s1, job, FALSE, FALSE, FALSE)
             ELSE Outcome(updateStatus(s1, NodeScanPhaseFailed, "NodeNotFound", "False"),
                          job, FALSE, FALSE, FALSE)
        ELSE IF ns.scanPolicy # "" /\ ~policy.exists
        THEN IF fail = "status"
             THEN Outcome(s1, job, FALSE, FALSE, FALSE)
             ELSE Outcome(updateStatus(s1, NodeScanPhaseFailed, "ScanPolicyNotFound", "False"),
                          job, FALSE, FALSE, FALSE)
        ELSE IF ~job.exists
        THEN LET s2 == IF s1.phase = "" THEN [s1 EXCEPT !.phase = NodeScanPhasePending] ELSE s1
                 newJob == constructJobForNodeScan(
                               name, s2, IF ns.scanPolicy # "" THEN policy ELSE NoPolicy)
                 s3 == updateStatus([s2 EXCEPT !.jobRef = JobName(name)],
                                    NodeScanPhaseRunning, "JobCreated", "True")
             IN  IF s1.phase = "" /\ fail = "initStatus"
                 THEN Outcome(s1, job, FALSE, FALSE, FALSE)
                 ELSE IF fail = "create"
                 THEN Outcome(s2, job, FALSE, FALSE, FALSE)
                 ELSE IF fail = "status"
                 THEN Outcome(s2, newJob, TRUE, FALSE, FALSE)
                 ELSE Outcome(s3, newJob, TRUE, FALSE, FALSE)
        ELSE IF job.succeeded > 0
        THEN IF s1.phase # NodeScanPhaseCompleted
             THEN LET parsed == parseJobResults(
                                    [s1 EXCEPT !.phase = NodeScanPhaseCompleted,
                                               !.completionTime = TRUE], job, access)
                      s4 == updateStatus(parsed, NodeScanPhaseCompleted, "ScanCompleted", "True")
                  IN  IF fail = "status"
                      THEN Outcome(s1, job, FALSE, FALSE, FALSE)
                      ELSE Outcome(s4, job, FALSE,
                                   s4.filesInfected > 0 /\ ns.scanPolicy # "",
                                   ns.scanPolicy # "")
             ELSE Outcome(s1, job, FALSE, FALSE, FALSE)
        ELSE IF job.failed > 0
        THEN IF s1.phase # NodeScanPhaseFailed
             THEN IF fail = "status"
                  THEN Outcome(s1, job, FALSE, FALSE, FALSE)
                  ELSE Outcome(updateStatus(s1, NodeScanPhaseFailed, "ScanFailed", "False"),
                               job, FALSE, FALSE, FALSE)
             ELSE Outcome(s1, job, FALSE, FALSE, FALSE)
        ELSE Outcome(s1, job, FALSE, FALSE, FALSE)

\* ctrl.Result{RequeueAfter: ...} and the error returned with it.
ctrlResult(requeueAfter, err) == [requeueAfter |-> requeueAfter, err |-> err]

\* The ctrl.Result and error of that reconcile: RequeueAfter in seconds.
NodeScanResult(ns, job, fail, access) ==
    IF ~ns.finalizer /\ fail = "finalizer" THEN ctrlResult(0, TRUE)
    ELSE IF ns.nodeName \notin nodes \/ (ns.scanPolicy # "" /\ ~policy.exists)
    THEN ctrlResult(0, fail = "status")
    ELSE IF ~job.exists
    THEN IF \/ ns.phase = "" /\ fail = "initStatus"
            \/ fail \in {"create", "status"}
         THEN ctrlResult(0, TRUE)
         ELSE ctrlResult(RequeueSeconds, FALSE)
    ELSE IF job.succeeded > 0
    THEN ctrlResult(0, ns.phase # NodeScanPhaseCompleted /\ fail = "status")
    ELSE IF job.failed > 0
    THEN ctrlResult(0, ns.phase # NodeScanPhaseFailed /\ fail = "status")
    ELSE ctrlResult(RequeueSeconds, FALSE)

\* sendNotifications dispatches only when the policy configures notifications.
sendNotifications(count, pol) ==
    IF pol.notifications THEN count + 1 ELSE count

\* Whether this reconcile makes the API call named by fail, and reads the pod
\* log when access is not "ok": a failure of a call that is never made is no
\* different from no failure.
ReachesFailPoint(ns, job, fail, access) ==
    LET early == ns.nodeName \notin nodes \/ (ns.scanPolicy # "" /\ ~policy.exists)
        parses == ~early /\ job.exists /\ job.succeeded > 0
                      /\ ns.phase # NodeScanPhaseCompleted
        fails == ~early /\ job.exists /\ job.succeeded = 0 /\ job.failed > 0
                     /\ ns.phase # NodeScanPhaseFailed
    IN  /\ fail = "finalizer" => ~ns.finalizer
        /\ fail = "initStatus" => ~early /\ ~job.exists /\ ns.phase = ""
        /\ fail = "create" => ~early /\ ~job.exists
        /\ fail = "status" => early \/ ~job.exists \/ parses \/ fails
        /\ fail # "deleteJob"
        /\ access # "ok" => parses /\ fail \notin {"finalizer", "status"}
        /\ access = "failedpod" => job.failed > 0

\* Reconcile of a NodeScan without deletion timestamp.
NodeScanReconcileLive(name, fail, access) ==
    LET ns == nodeScans[name]
        out == NodeScanSync(name, ns, jobs[JobName(name)], fail, access)
    IN  /\ ns.exists /\ ~ns.deleting
        /\ ReachesFailPoint(ns, jobs[JobName(name)], fail, access)
        /\ out.created => jobCreations[name] < MaxJobCreations
        /\ (out.notify /\ policy.notifications) => notifications[name] < MaxNotifications
        /\ nodeScans' = [nodeScans EXCEPT ![name] = out.ns]
        /\ jobs' = [jobs EXCEPT ![JobName(name)] = out.job]
        /\ jobCreations' = [jobCreations EXCEPT ![name] = IF out.created THEN @ + 1 ELSE @]
        /\ notifications' =
               [notifications EXCEPT ![name] = IF out.notify THEN sendNotifications(@, policy) ELSE @]
        /\ policy' = IF out.used THEN [policy EXCEPT !.lastUsed = TRUE] ELSE policy
        /\ UNCHANGED <<nodes, csVars, schedVars, cacheVars, procVars>>

\* A reconcile of a deleted NodeScan that removes the finalizer and leaves the
\* Job alone.
NodeScanReconcileKeepingJob(name, fail) ==
    /\ nodeScans[name].exists /\ nodeScans[name].deleting /\ nodeScans[name].finalizer
    /\ fail = "none"
    /\ nodeScans' = [nodeScans EXCEPT ![name] = NoNodeScan]
    /\ notifications' = [notifications EXCEPT ![name] = 0]
    /\ jobCreations' = [jobCreations EXCEPT ![name] = 0]
    /\ UNCHANGED <<nodes, policy, jobs, csVars, schedVars, cacheVars, procVars>>

\* Reconcile of a NodeScan that carries a deletion timestamp: cleanupNodeScan
\* deletes the Job named in status.jobRef, then the finalizer is removed and
\* the API server drops the object.
NodeScanReconcileDeleting(name, fail) ==
    LET ns == nodeScans[name]
        jobsAfter == IF ns.jobRef # "" /\ fail # "deleteJob"
                     THEN [jobs EXCEPT ![ns.jobRef] = NoJob]
                     ELSE jobs
    IN  /\ ns.exists /\ ns.deleting /\ ns.finalizer
        /\ fail \in {"none", "deleteJob", "finalizer"}
        /\ fail = "deleteJob" => ns.jobRef # ""
        /\ jobs' = jobsAfter
        /\ IF fail \in {"deleteJob", "finalizer"}
           THEN UNCHANGED <<nodeScans, notifications, jobCreations>>
           ELSE /\ nodeScans' = [nodeScans EXCEPT ![name] = NoNodeScan]
                /\ notifications' = [notifications EXCEPT ![name] = 0]
                /\ jobCreations' = [jobCreations EXCEPT ![name] = 0]
        /\ UNCHANGED <<nodes, policy, csVars, schedVars, cacheVars, procVars>>

NodeScanReconcile(name) ==
    \/ \E fail \in NodeScanFailPoints, access \in LogAccess :
           NodeScanReconcileLive(name, fail, access)
    \/ \E fail \in NodeScanFailPoints : NodeScanReconcileDeleting(name, fail)

(***************************************************************************)
(* The platform: Jobs, nodes, policies, deletions.                         *)
(***************************************************************************)
JobFinished(job) == job.succeeded > 0 \/ job.failed > BackoffLimit

\* A scanner pod exits non-zero; the Job retries up to BackoffLimit times.
PodFails(j) ==
    /\ jobs[j].exists /\ ~JobFinished(jobs[j])
    /\ jobs' = [jobs EXCEPT ![j].failed = @ + 1]
    /\ UNCHANGED <<nodes, policy, nodeScans, notifications, jobCreations, csVars, schedVars, cacheVars, procVars>>

\* A scanner pod exits 0 having printed log.
PodSucceeds(j, logs) ==
    /\ jobs[j].exists /\ ~JobFinished(jobs[j])
    /\ \E log \in logs : jobs' = [jobs EXCEPT ![j].succeeded = 1, ![j].log = log]
    /\ UNCHANGED <<nodes, policy, nodeScans, notifications, jobCreations, csVars, schedVars, cacheVars, procVars>>

\* ttlSecondsAfterFinished (86400 by default) elapses on a finished Job.
JobTTLExpires(j) ==
    /\ jobs[j].exists /\ JobFinished(jobs[j])
    /\ jobs' = [jobs EXCEPT ![j] = NoJob]
    /\ UNCHANGED <<nodes, policy, nodeScans, notifications, jobCreations, csVars, schedVars, cacheVars, procVars>>

\* A user deletes the Job, or the garbage collector removes it once its
\* owner NodeScan is gone.
JobDeleted(j) ==
    /\ jobs[j].exists
    /\ jobs' = [jobs EXCEPT ![j] = NoJob]
    /\ UNCHANGED <<nodes, policy, nodeScans, notifications, jobCreations, csVars, schedVars, cacheVars, procVars>>

NodeJoins(n) ==
    /\ n \notin nodes
    /\ nodes' = nodes \cup {n}
    /\ UNCHANGED <<policy, nodeScans, jobs, notifications, jobCreations, csVars, schedVars, cacheVars, procVars>>

NodeLeaves(n) ==
    /\ n \in nodes
    /\ nodes' = nodes \ {n}
    /\ UNCHANGED <<policy, nodeScans, jobs, notifications, jobCreations, csVars, schedVars, cacheVars, procVars>>

PolicyCreated(notif) ==
    /\ ~policy.exists
    /\ policy' = [NoPolicy EXCEPT !.exists = TRUE, !.notifications = notif]
    /\ UNCHANGED <<nodes, nodeScans, jobs, notifications, jobCreations, csVars, schedVars, cacheVars, procVars>>

PolicyDeleted ==
    /\ policy.exists
    /\ policy' = NoPolicy
    /\ UNCHANGED <<nodes, nodeScans, jobs, notifications, jobCreations, csVars, schedVars, cacheVars, procVars>>

\* A delete request for a NodeScan: with the finalizer present the object
\* only gets its deletion timestamp, otherwise it is gone at once.
DeleteNodeScanObject(ns) ==
    IF ns.finalizer THEN [ns EXCEPT !.deleting = TRUE] ELSE NoNodeScan

NodeScanDeleted(name) ==
    /\ nodeScans[name].exists /\ ~nodeScans[name].deleting
    /\ nodeScans' = [nodeScans EXCEPT ![name] = DeleteNodeScanObject(@)]
    /\ notifications' =
           [notifications EXCEPT ![name] = IF nodeScans[name].finalizer THEN @ ELSE 0]
    /\ jobCreations' =
           [jobCreations EXCEPT ![name] = IF nodeScans[name].finalizer THEN @ ELSE 0]
    /\ UNCHANGED <<nodes, policy, jobs, csVars, schedVars, cacheVars, procVars>>


(***************************************************************************)
(* The validating admission webhook of NodeScan.                           *)
(***************************************************************************)
MinNodeScanConcurrent == 1

MaxNodeScanConcurrent == 20

MinFileTimeout == 1000

MaxFileTimeout == 3600000

MinMaxFileSize == 1024

\* validateNodeScan: TRUE when the error list is empty.  The node names the
\* model submits are DNS-1123 names or empty; paths, exclude patterns and
\* resources are submitted as stored; every size of the model lies under the
\* maximum of 10 GiB (MaxMaxFileSize).
validateNodeScan(ns) ==
    /\ ns.nodeName # ""
    /\ ns.priority \in {"high", "medium", "low", ""}
    /\ ns.maxConcurrent # 0 =>
           ns.maxConcurrent >= MinNodeScanConcurrent /\ ns.maxConcurrent <= MaxNodeScanConcurrent
    /\ ns.fileTimeout # 0 =>
           ns.fileTimeout >= MinFileTimeout /\ ns.fileTimeout <= MaxFileTimeout
    /\ ns.maxFileSize # 0 =>
           ns.maxFileSize >= MinMaxFileSize

\* An update validation that does not compare the node names.
ValidateUpdateAnyNode(new, old) == validateNodeScan(new)

\* An update validation that checks the new object the way ValidateCreate does.
ValidateUpdateAsCreate(new, old) == validateNodeScan(new)

\* ValidateUpdate: TRUE when the update is admitted.
ValidateUpdate(new, old) ==
    /\ new.nodeName = old.nodeName
    /\ validateNodeScan(new)

\* A user submits an update of the spec of a NodeScan; the API server stores
\* it when the webhook admits it and drops it otherwise.
NodeScanUpdated(name, node, priority, maxConcurrent) ==
    LET old == nodeScans[name]
        new == [old EXCEPT !.nodeName = node, !.priority = priority,
                           !.maxConcurrent = maxConcurrent]
    IN  /\ old.exists /\ ~old.deleting
        /\ ValidateUpdate(new, old)
        /\ nodeScans' = [nodeScans EXCEPT ![name] = new]
        /\ UNCHANGED <<nodes, policy, jobs, notifications, jobCreations, csVars, schedVars, cacheVars, procVars>>

(***************************************************************************)
(* ClusterScanReconciler.                                                  *)
(***************************************************************************)
ClusterScanPhasePending == "Pending"

ClusterScanPhaseRunning == "Running"

ClusterScanPhaseCompleted == "Completed"

ClusterScanPhaseFailed == "Failed"

ClusterScanPhasePartiallyComplete == "PartiallyCompleted"

ClusterScanTerminal ==
    {ClusterScanPhaseCompleted, ClusterScanPhaseFailed, ClusterScanPhasePartiallyComplete}

\* The API calls of ClusterScanReconciler.Reconcile that may return an error.
ClusterScanFailPoints == {"none", "finalizer", "initStatus", "list", "status"}

\* getNodesForScan: the nodes matching the selector, or every node.
getNodesForScan(cs) == IF cs.nodeSelector THEN nodes \cap labelled ELSE nodes

\* r.List of the NodeScans labelled clusterscan=<name>.
existingNodeScans(cs) ==
    {name \in NodeScanNames :
        nodeScans[name].exists /\ nodeScans[name].clusterscan = ClusterScanName}

CountPhase(items, phase) == Cardinality({name \in items : nodeScans[name].phase = phase})

RECURSIVE SumOver(_, _)
SumOver(items, field) ==
    IF items = {} THEN 0
    ELSE LET name == CHOOSE x \in items : TRUE
         IN  nodeScans[name][field] + SumOver(items \ {name}, field)

\* concurrent := clusterScan.Spec.Concurrent; 3 when it is 0
Concurrent(cs) == IF cs.concurrent = 0 THEN DefaultConcurrent ELSE cs.concurrent

\* A window one slot too small.
HasFreeSlotStrict(running, concurrent) == running + 1 < concurrent

\* A test that finds a free slot whatever the counter.
HasFreeSlotAlways(running, concurrent) == TRUE

\* The test both `if running < concurrent` guards make.
HasFreeSlot(running, concurrent) == running < concurrent

Perms(S) == {f \in [1..Cardinality(S) -> S] : \A x \in S : \E i \in DOMAIN f : f[i] = x}

\* The creation loop over the node list: st.running is the running counter,
\* st.created the nodes createNodeScanForNode succeeded for.
RECURSIVE CreateLoop(_, _, _, _, _, _)
CreateLoop(order, i, items, createFail, concurrent, st) ==
    IF i > Len(order) THEN st
    ELSE LET node == order[i]
             exists == \E name \in items : nodeScans[name].nodeName = node
         IN  IF ~exists /\ HasFreeSlot(st.running, concurrent)
             THEN IF node \in createFail
                  THEN CreateLoop(order, i + 1, items, createFail, concurrent, st)
                  ELSE CreateLoop(order, i + 1, items, createFail, concurrent,
                                  [running |-> st.running + 1,
                                   created |-> st.created \cup {node}])
             ELSE CreateLoop(order, i + 1, items, createFail, concurrent, st)

\* The phase rule applied after aggregation.
AggregatePhase(completed, failed, totalNodes) ==
    IF completed + failed = totalNodes
    THEN IF failed = 0 THEN ClusterScanPhaseCompleted
         ELSE IF completed > 0 THEN ClusterScanPhasePartiallyComplete
         ELSE ClusterScanPhaseFailed
    ELSE ClusterScanPhaseRunning

NodeScanReference(name) ==
    [name |-> name, nodeName |-> nodeScans[name].nodeName, phase |-> nodeScans[name].phase,
     filesInfected |-> nodeScans[name].filesInfected,
     filesScanned |-> nodeScans[name].filesScanned]

\* The status Reconcile computes from the node list and the listed children.
Aggregate(cs, selected, items, running) ==
    LET done == {name \in items : nodeScans[name].phase = NodeScanPhaseCompleted}
        completed == Cardinality(done)
        failed == CountPhase(items, NodeScanPhaseFailed)
        total == Cardinality(selected)
        phase == AggregatePhase(completed, failed, total)
    IN  [cs EXCEPT !.totalNodes = total,
                   !.completedNodes = completed,
                   !.runningNodes = running,
                   !.failedNodes = failed,
                   !.infectedNodes =
                       Cardinality({name \in done : nodeScans[name].filesInfected > 0}),
                   !.totalFilesScanned = SumOver(done, "filesScanned"),
                   !.totalFilesInfected = SumOver(done, "filesInfected"),
                   !.nodeScans = {NodeScanReference(name) : name \in items},
                   !.phase = phase,
                   !.completionTime = IF phase \in ClusterScanTerminal THEN TRUE ELSE @]

\* An object of the name createNodeScanForNode gives the child of a node is
\* stored already: r.Create answers AlreadyExists.
ChildNameTaken(node) == nodeScans[ChildName(ClusterScanName, node)].exists

\* Reconcile of a ClusterScan without deletion timestamp.  order is the order
\* in which the node list is returned, createFail the nodes whose
\* createNodeScanForNode call fails, items the children r.List returns: the
\* client reads from the manager's cache, which may lag behind the stored
\* children.
ClusterScanReconcileListing(fail, order, createFail, items) ==
    LET cs == clusterScan
        c1 == [cs EXCEPT !.finalizer = TRUE]
        c2 == IF c1.phase = "" THEN [c1 EXCEPT !.phase = ClusterScanPhasePending] ELSE c1
        selected == getNodesForScan(cs)
        running == CountPhase(items, NodeScanPhaseRunning)
        loop == IF HasFreeSlot(running, Concurrent(cs))
                THEN CreateLoop(order, 1, items, createFail, Concurrent(cs),
                                [running |-> running, created |-> {}])
                ELSE [running |-> running, created |-> {}]
        c3 == Aggregate(c2, selected, items, loop.running)
    IN  /\ cs.exists /\ ~cs.deleting
        /\ order \in Perms(selected)
        /\ items \subseteq existingNodeScans(cs)
        /\ createFail \subseteq
               {node \in selected : \A name \in items : nodeScans[name].nodeName # node}
        /\ \A node \in selected :
               (ChildNameTaken(node) /\ \A name \in items : nodeScans[name].nodeName # node)
               => node \in createFail
        /\ fail = "finalizer" => ~cs.finalizer
        /\ fail = "initStatus" => cs.phase = ""
        /\ UNCHANGED <<nodes, policy, jobs, notifications, jobCreations, labelled, schedVars, cacheVars, procVars>>
        /\ IF ~cs.finalizer /\ fail = "finalizer"
           THEN UNCHANGED <<clusterScan, nodeScans, snapshot>>
           ELSE IF cs.phase = "" /\ fail = "initStatus"
           THEN clusterScan' = c1 /\ UNCHANGED <<nodeScans, snapshot>>
           ELSE IF fail = "list"
           THEN clusterScan' = c2 /\ UNCHANGED <<nodeScans, snapshot>>
           ELSE /\ nodeScans' =
                       [name \in NodeScanNames |->
                           IF \E node \in loop.created : name = ChildName(ClusterScanName, node)
                           THEN NewNodeScan(
                                    CHOOSE node \in loop.created :
                                        name = ChildName(ClusterScanName, node),
                                    cs.scanPolicy, ClusterScanName)
                           ELSE nodeScans[name]]
                /\ snapshot' = IF snapshot.taken \/ fail = "status" THEN snapshot
                               ELSE [taken |-> TRUE, nodes |-> selected]
                /\ clusterScan' = IF fail = "status" THEN c2 ELSE c3

\* The reconcile when the listing is up to date.
ClusterScanReconcileLive(fail, order, createFail) ==
    ClusterScanReconcileListing(fail, order, createFail, existingNodeScans(clusterScan))

\* A deletion reconcile that removes the finalizer and deletes no NodeScan.
ClusterScanReconcileOrphaning(fail, deleted) ==
    /\ clusterScan.exists /\ clusterScan.deleting /\ clusterScan.finalizer
    /\ fail = "none" /\ deleted = existingNodeScans(clusterScan)
    /\ clusterScan' = NoClusterScan
    /\ snapshot' = NoSnapshot
    /\ UNCHANGED <<nsVars, labelled, schedVars, cacheVars, procVars>>

\* The API calls of the deletion path that may return an error.
ClusterScanCleanupFailPoints == {"none", "list", "delete", "finalizer"}

\* Reconcile of a ClusterScan that carries a deletion timestamp:
\* cleanupClusterScan deletes every labelled NodeScan (deleted: those reached
\* before a Delete call failed), then the finalizer is removed and the API
\* server drops the object.
ClusterScanReconcileDeleting(fail, deleted) ==
    LET cs == clusterScan
        items == existingNodeScans(cs)
        removed == fail = "none"
    IN  /\ cs.exists /\ cs.deleting /\ cs.finalizer
        /\ deleted \subseteq items
        /\ fail = "list" => deleted = {}
        /\ fail = "delete" => deleted # items
        /\ fail \in {"none", "finalizer"} => deleted = items
        /\ nodeScans' = [name \in NodeScanNames |->
                            IF name \in deleted /\ ~nodeScans[name].deleting
                            THEN DeleteNodeScanObject(nodeScans[name])
                            ELSE nodeScans[name]]
        /\ notifications' = [name \in NodeScanNames |->
                                IF nodeScans'[name].exists THEN notifications[name] ELSE 0]
        /\ jobCreations' = [name \in NodeScanNames |->
                                IF nodeScans'[name].exists THEN jobCreations[name] ELSE 0]
        /\ clusterScan' = IF removed THEN NoClusterScan ELSE cs
        /\ snapshot' = IF removed THEN NoSnapshot ELSE snapshot
        /\ UNCHANGED <<nodes, policy, jobs, labelled, schedVars, cacheVars, procVars>>

ClusterScanReconcile ==
    \/ \E fail \in ClusterScanFailPoints, order \in Perms(getNodesForScan(clusterScan)),
          createFail \in SUBSET getNodesForScan(clusterScan) :
           ClusterScanReconcileLive(fail, order, createFail)
    \/ \E fail \in ClusterScanCleanupFailPoints, deleted \in SUBSET NodeScanNames :
           ClusterScanReconcileDeleting(fail, deleted)

\* A user creates the ClusterScan.
ClusterScanCreated(selector, pol, concurrent) ==
    /\ ~clusterScan.exists
    /\ clusterScan' = NewClusterScan(selector, pol, concurrent)
    /\ UNCHANGED <<nsVars, labelled, snapshot, schedVars, cacheVars, procVars>>

\* A delete request for the ClusterScan.
ClusterScanDeleted ==
    /\ clusterScan.exists /\ ~clusterScan.deleting
    /\ clusterScan' = IF clusterScan.finalizer
                      THEN [clusterScan EXCEPT !.deleting = TRUE]
                      ELSE NoClusterScan
    /\ snapshot' = IF clusterScan.finalizer THEN snapshot ELSE NoSnapshot
    /\ UNCHANGED <<nsVars, labelled, schedVars, cacheVars, procVars>>

\* A node gains or loses the label the selector matches.
NodeRelabelled(n) ==
    /\ n \in nodes
    /\ labelled' = IF n \in labelled THEN labelled \ {n} ELSE labelled \cup {n}
    /\ UNCHANGED <<nsVars, clusterScan, snapshot, schedVars, cacheVars, procVars>>

(***************************************************************************)
(* ScanScheduleReconciler.                                                 *)
(***************************************************************************)
ScheduleName == "nightly"

Times == 0..MaxTime

\* A nil *metav1.Time.
NoTime == 0 - 1

\* schedule.Next(t) of a cron expression firing every CronPeriod time units:
\* the first firing time strictly after t.
CronNext(t) == ((t \div CronPeriod) + 1) * CronPeriod

\* fmt.Sprintf("%s-%d", scanSchedule.Name, now.Unix())
ScheduledName(t) == ScheduleName \o "-" \o ToString(t)

\* A ClusterScan created by the schedule, as far as the schedule reads it.
\* The ClusterScan reconciler adds its finalizer in the reconcile that first
\* writes a phase, so a ClusterScan holds the finalizer iff its phase is set.
NoScheduled == [exists |-> FALSE, deleting |-> FALSE, phase |-> ""]

NewScheduled == [exists |-> TRUE, deleting |-> FALSE, phase |-> ""]

\* r.Delete on a scheduled ClusterScan.
DeleteClusterScanObject(cs) ==
    IF cs.phase = "" THEN NoScheduled ELSE [cs EXCEPT !.deleting = TRUE]

ConcurrencyPolicies == {"Allow", "Forbid", "Replace"}

\* successLimit := int32(10) unless Spec.SuccessfulScansHistoryLimit is set
SuccessLimit(sched) ==
    IF sched.successfulScansHistoryLimit = NoTime THEN DefaultSuccessfulScansHistoryLimit
    ELSE sched.successfulScansHistoryLimit

\* failedLimit := int32(3) unless Spec.FailedScansHistoryLimit is set
FailedLimit(sched) ==
    IF sched.failedScansHistoryLimit = NoTime THEN DefaultFailedScansHistoryLimit
    ELSE sched.failedScansHistoryLimit

NewSchedule(suspend, concurrencyPolicy, limit) ==
    [suspend |-> suspend, concurrencyPolicy |-> concurrencyPolicy,
     successfulScansHistoryLimit |-> limit, failedScansHistoryLimit |-> limit,
     nextScheduleTime |-> NoTime, lastScheduleTime |-> NoTime, lastClusterScan |-> "",
     active |-> {}, lastSuccessfulTime |-> FALSE]

\* ctrl.Result and error of a reconcile.
Result(requeueAfter, err) == [requeueAfter |-> requeueAfter, err |-> err]

\* A reconciler that ignores spec.suspend.
NeverSuspended(sched) == FALSE

\* The test `if scanSchedule.Spec.Suspend`.
IsSuspended(sched) == sched.suspend

\* needsRun before the concurrency policy is looked at.
IsDue(sched, t) ==
    \/ sched.lastScheduleTime = NoTime
    \/ CronNext(sched.lastScheduleTime) <= t

\* The first n elements of a sequence (all of it when shorter).
FirstN(seq, n) == {seq[i] : i \in 1..(IF n < Len(seq) THEN n ELSE Len(seq))}

\* The API calls of ScanScheduleReconciler.Reconcile that may return an error.
ScanScheduleFailPoints == {"none", "create", "list", "delete", "status"}

Scheduled(cs) == {t \in Times : cs[t].exists}

\* cleanupHistory on the in-memory schedule sched, the stored ClusterScans cs
\* and the list order `order`: the status fields it sets and the deletes it
\* issues.  With fail = "list" the list call fails; with fail = "delete" the
\* first Delete call does.
cleanupHistory(sched, cs, order, fail) ==
    LET successful == SelectSeq(order, LAMBDA t : cs[t].phase = ClusterScanPhaseCompleted)
        failed == SelectSeq(order, LAMBDA t :
                      cs[t].phase \in {ClusterScanPhaseFailed, ClusterScanPhasePartiallyComplete})
        active == {ScheduledName(order[i]) : i \in
                      {j \in 1..Len(order) : cs[order[j]].phase \notin ClusterScanTerminal}}
        doomed == FirstN(successful, Len(successful) - SuccessLimit(sched))
                      \cup FirstN(failed, Len(failed) - FailedLimit(sched))
        listed == [sched EXCEPT !.active = active]
    IN  IF fail = "list" THEN [sched |-> sched, clusterScans |-> cs]
        ELSE IF fail = "delete" /\ doomed # {} THEN [sched |-> listed, clusterScans |-> cs]
        ELSE [sched |-> [listed EXCEPT !.lastSuccessfulTime =
                                          IF Len(successful) > 0 THEN TRUE ELSE @],
              clusterScans |-> [t \in Times |->
                                   IF t \in doomed /\ ~cs[t].deleting
                                   THEN DeleteClusterScanObject(cs[t]) ELSE cs[t]]]

\* Reconcile up to the cleanupHistory call.  st.done tells that Reconcile
\* has returned (suspended, or Create failed).
ScanScheduleSync(sched, cs, t, fail) ==
    LET nextRun == CronNext(t)
        s1 == [sched EXCEPT !.nextScheduleTime = nextRun]
        due == IsDue(s1, t)
        forbidden == s1.concurrencyPolicy = "Forbid" /\ s1.active # {}
        replacing == due /\ s1.concurrencyPolicy = "Replace" /\ s1.active # {}
        cs1 == IF replacing
               THEN [u \in Times |->
                        IF cs[u].exists /\ ~cs[u].deleting /\ ScheduledName(u) \in s1.active
                        THEN DeleteClusterScanObject(cs[u]) ELSE cs[u]]
               ELSE cs
        s2 == IF replacing THEN [s1 EXCEPT !.active = {}] ELSE s1
        needsRun == due /\ ~forbidden
        s3 == [s2 EXCEPT !.lastScheduleTime = t,
                         !.lastClusterScan = ScheduledName(t),
                         !.active = @ \cup {ScheduledName(t)}]
    IN  IF IsSuspended(sched)
        THEN [done |-> TRUE, err |-> fail = "status",
              sched |-> IF fail = "status" THEN sched ELSE s1, clusterScans |-> cs]
        ELSE IF ~needsRun
        THEN [done |-> FALSE, err |-> FALSE, sched |-> s2, clusterScans |-> cs1]
        ELSE IF fail = "create" \/ cs1[t].exists
        THEN [done |-> TRUE, err |-> TRUE, sched |-> sched, clusterScans |-> cs1]
        ELSE [done |-> FALSE, err |-> FALSE, sched |-> s3,
              clusterScans |-> [cs1 EXCEPT ![t] = NewScheduled]]

\* What r.List can return in cleanupHistory when the stored ClusterScans were
\* before at the start of the reconcile and are after now: the client reads
\* from the manager's cache, which holds every ClusterScan that was stored
\* before and may not yet hold the one this reconcile has just created.
CachedListings(before, after) ==
    {Scheduled(after)} \cup
    {Scheduled(after) \ {t} : t \in {u \in Times : ~before[u].exists /\ after[u].exists}}

ScanScheduleReconcile(fail, order) ==
    LET st == ScanScheduleSync(schedule, clusterScans, now, fail)
        cleaned == cleanupHistory(st.sched, st.clusterScans, order, fail)
    IN  /\ st.done \/ \E listing \in CachedListings(clusterScans, st.clusterScans) :
                          order \in Perms(listing)
        /\ IF st.done
           THEN /\ schedule' = st.sched
                /\ clusterScans' = st.clusterScans
                /\ result' = IF st.err THEN Result(NoTime, TRUE)
                             ELSE Result(CronNext(now) - now, FALSE)
           ELSE /\ clusterScans' = cleaned.clusterScans
                /\ schedule' = IF fail = "status" THEN schedule ELSE cleaned.sched
                /\ result' = IF fail = "status" THEN Result(NoTime, TRUE)
                             ELSE Result(CronNext(now) - now, FALSE)
        /\ UNCHANGED <<nsVars, csVars, cacheVars, procVars, now>>

\* A reconcile of the schedule: any failure point, any order of the list
\* cleanupHistory reads.
ScanScheduleReconciles ==
    \E fail \in ScanScheduleFailPoints :
        LET st == ScanScheduleSync(schedule, clusterScans, now, fail)
        IN  /\ fail = "create" => st.done /\ st.err /\ ~IsSuspended(schedule)
            /\ fail \in {"list", "delete"} => ~st.done
            /\ \E order \in (IF st.done THEN {<<>>}
                              ELSE UNION {Perms(listing) : listing \in
                                     CachedListings(clusterScans, st.clusterScans)}) :
                   ScanScheduleReconcile(fail, order)

\* The clock advances.
Tick ==
    /\ now < MaxTime
    /\ now' = now + 1
    /\ UNCHANGED <<nsVars, csVars, cacheVars, procVars, schedule, clusterScans, result>>

\* A user sets or clears spec.suspend.
SuspendToggled ==
    /\ schedule' = [schedule EXCEPT !.suspend = ~@]
    /\ UNCHANGED <<nsVars, csVars, cacheVars, procVars, now, clusterScans, result>>

\* The phases the modelled ClusterScans are seen in after their first reconcile.
ScheduledPhases ==
    {ClusterScanPhaseRunning, ClusterScanPhaseCompleted, ClusterScanPhaseFailed}

\* The ClusterScan reconciler writes the status of a scheduled ClusterScan:
\* the phase is recomputed from the node list and the children on every
\* reconcile (AggregatePhase).
ScheduledReconciled(t, phase) ==
    /\ clusterScans[t].exists /\ ~clusterScans[t].deleting
    /\ clusterScans[t].phase # phase
    /\ clusterScans' = [clusterScans EXCEPT ![t].phase = phase]
    /\ UNCHANGED <<nsVars, csVars, cacheVars, procVars, now, schedule, result>>

\* The ClusterScan reconciler finishes the deletion of a scheduled ClusterScan.
ScheduledFinalized(t) ==
    /\ clusterScans[t].exists /\ clusterScans[t].deleting
    /\ clusterScans' = [clusterScans EXCEPT ![t] = NoScheduled]
    /\ UNCHANGED <<nsVars, csVars, cacheVars, procVars, now, schedule, result>>

(***************************************************************************)
(* The incremental-scan cache manager: one ScanCacheResource per node,     *)
(* here the one of node-1.                                                 *)
(***************************************************************************)
ScanStrategyFull == "full"

ScanStrategyIncremental == "incremental"

ScanStrategies == {ScanStrategyFull, ScanStrategyIncremental}

ScanCacheName(node) == "scancache-" \o node

\* time.Now().Unix() is a positive number of seconds; the clock moves in
\* steps of two hours.
StartTime == 10 * SecondsPerHour

ClockStep == 2 * SecondsPerHour

\* FileMetadata: the path and the one field that tells a new entry from an
\* old one.  ModTime, Size, Hash and ScanResult are copied along with it.
FileMetadata(path, lastScanned) == [path |-> path, lastScanned |-> lastScanned]

\* The scanner keeps its observations in an object keyed by path, so a report
\* holds each path once.
SmallReports(t) ==
    {<<>>} \cup
    UNION {{[i \in 1..n |-> FileMetadata(order[i], t)] :
                order \in {o \in [1..n -> 1..MaxPaths] :
                              \A i, j \in 1..n : i # j => o[i] # o[j]}} :
           n \in 1..MaxReportLen}

\* The report of a scan of a file system with more files than the cache holds.
BulkReport(t) == [i \in 1..(CacheLimit + 1) |-> FileMetadata(i, t)]

\* One file that the bulk report does not hold.
ExtraReport(t) == <<FileMetadata(CacheLimit + 2, t)>>

\* IncrementalScanConfig; nil is the absent spec.incrementalConfig.
NilConfig ==
    [nil |-> TRUE, enabled |-> FALSE, baselineInterval |-> 0, cacheExpiration |-> 0,
     minTimeBetweenScans |-> 0]

IncrementalScanConfig(enabled, baselineInterval, cacheExpiration) ==
    [nil |-> FALSE, enabled |-> enabled, baselineInterval |-> baselineInterval,
     cacheExpiration |-> cacheExpiration,
     minTimeBetweenScans |-> DefaultMinTimeBetweenScans]

\* The config the API server stores for a submitted one: a field left out
\* (0 here) gets the default of its +kubebuilder:default marker.
WithDefaults(config) ==
    IF config.nil THEN config
    ELSE [config EXCEPT
            !.baselineInterval = IF @ = 0 THEN DefaultBaselineInterval ELSE @,
            !.cacheExpiration = IF @ = 0 THEN DefaultCacheExpiration ELSE @,
            !.minTimeBetweenScans = IF @ = 0 THEN DefaultMinTimeBetweenScans ELSE @]

IncrementalConfigs ==
    {NilConfig, IncrementalScanConfig(FALSE, DefaultBaselineInterval, DefaultCacheExpiration)}
    \cup {IncrementalScanConfig(TRUE, n, e) :
            n \in 1..MaxBaselineInterval, e \in {1}}

\* The part of a NodeScan the cache manager reads.
ScanRequest(strategy, forceFullScan, config) ==
    [strategy |-> strategy, forceFullScan |-> forceFullScan, incrementalConfig |-> config]

NoScanCache ==
    [exists |-> FALSE, nodeName |-> "", lastFullScan |-> 0, lastIncrementalScan |-> 0,
     scanCount |-> 0, files |-> <<>>, totalFiles |-> 0]

\* getScanCache: the stored record, or a new empty one that is created.
getScanCache(cache, nodeName, createFails) ==
    IF cache.exists THEN [cache |-> cache, err |-> FALSE]
    ELSE IF createFails THEN [cache |-> cache, err |-> TRUE]
    ELSE [cache |-> [NoScanCache EXCEPT !.exists = TRUE, !.nodeName = nodeName],
          err |-> FALSE]

Paths(files) == {files[i].path : i \in DOMAIN files}

UniquePaths(files) == Cardinality(Paths(files)) = Len(files)

\* What a map keyed by path holds after the entries of files were stored into
\* it one after the other: for each path its last entry.  The entries are
\* listed in the order of the paths' first occurrence.
MapOf(files) ==
    IF UniquePaths(files) THEN files
    ELSE LET last(i) == CHOOSE j \in DOMAIN files :
                            /\ files[j].path = files[i].path
                            /\ \A k \in DOMAIN files : files[k].path = files[i].path => k <= j
             first == {i \in DOMAIN files : \A k \in 1..(i - 1) : files[k].path # files[i].path}
             rank(i) == Cardinality({k \in first : k <= i})
         IN [n \in 1..Cardinality(first) |->
                files[last(CHOOSE i \in first : rank(i) = n)]]

\* existingFiles after both loops of updateScanCache.
existingFiles(cacheFiles, filesMetadata) ==
    LET new == MapOf(filesMetadata)
        newPaths == Paths(new)
    IN SelectSeq(MapOf(cacheFiles), LAMBDA f : f.path \notin newPaths) \o new

\* Go iterates over a map from a position it picks at random.
MapRange(entries, start) ==
    IF entries = <<>> THEN entries
    ELSE LET k == start % Len(entries)
         IN SubSeq(entries, k + 1, Len(entries)) \o SubSeq(entries, 1, k)

IsFullScanMerge(nodeScan) ==
    nodeScan.strategy = ScanStrategyFull \/ nodeScan.forceFullScan

\* updateScanCache up to its r.Update: the record it is about to write.
updateScanCache(cache, nodeScan, filesMetadata, t, start) ==
    LET updatedFiles == MapRange(existingFiles(cache.files, filesMetadata), start)
        files == IF IsFullScanMerge(nodeScan) THEN filesMetadata
                 ELSE IF Len(updatedFiles) > CacheLimit
                      THEN SubSeq(updatedFiles, 1, CacheLimit)
                      ELSE updatedFiles
    IN IF IsFullScanMerge(nodeScan)
       THEN [cache EXCEPT !.lastFullScan = t, !.scanCount = 0,
                          !.files = files, !.totalFiles = Len(files)]
       ELSE [cache EXCEPT !.lastIncrementalScan = t, !.scanCount = cache.scanCount + 1,
                          !.files = files, !.totalFiles = Len(files)]

\* The last test of shouldForceFullScan: the last incremental scan is less
\* than minTimeBetweenScans hours old.
MinTimeNotReached(cache, config, t) ==
    /\ cache.lastIncrementalScan > 0
    /\ t - cache.lastIncrementalScan < config.minTimeBetweenScans * SecondsPerHour

\* A variant that forces a full scan when the minimum time is not reached.
shouldForceFullScanOnMinTime(nodeScan, cache, config, t) ==
    IF nodeScan.forceFullScan THEN TRUE
    ELSE IF nodeScan.strategy = ScanStrategyFull THEN TRUE
    ELSE IF config.nil \/ ~config.enabled THEN TRUE
    ELSE IF cache.scanCount >= config.baselineInterval THEN TRUE
    ELSE IF t - cache.lastFullScan > config.cacheExpiration * SecondsPerHour THEN TRUE
    ELSE MinTimeNotReached(cache, config, t)

\* When the minimum time is not reached the code writes a log line and goes
\* on to return false.
shouldForceFullScan(nodeScan, cache, config, t) ==
    IF nodeScan.forceFullScan THEN TRUE
    ELSE IF nodeScan.strategy = ScanStrategyFull THEN TRUE
    ELSE IF config.nil \/ ~config.enabled THEN TRUE
    ELSE IF cache.scanCount >= config.baselineInterval THEN TRUE
    ELSE IF t - cache.lastFullScan > config.cacheExpiration * SecondsPerHour THEN TRUE
    ELSE IF MinTimeNotReached(cache, config, t) THEN FALSE
    ELSE FALSE

\* A variant that hands the spec strategy to the scanner also when a full
\* scan is forced.
prepareEnvWithSpecStrategy(nodeScan, cache, config, t) ==
    LET forceFullScan == shouldForceFullScan(nodeScan, cache, config, t)
        emitted == ~config.nil /\ config.enabled /\ ~forceFullScan
    IN [SCAN_STRATEGY |-> IF nodeScan.strategy = "" THEN ScanStrategyFull
                          ELSE nodeScan.strategy,
        INCREMENTAL_ENABLED |-> emitted,
        MAX_FILE_AGE_HOURS |-> emitted,
        SKIP_UNCHANGED_FILES |-> emitted]

\* prepareIncrementalScanEnv: the value of SCAN_STRATEGY, and for
\* INCREMENTAL_ENABLED, MAX_FILE_AGE_HOURS and SKIP_UNCHANGED_FILES whether
\* the variable is in the list.
prepareIncrementalScanEnv(nodeScan, cache, config, t) ==
    LET forceFullScan == shouldForceFullScan(nodeScan, cache, config, t)
        strategy == IF forceFullScan \/ nodeScan.strategy = ""
                    THEN ScanStrategyFull ELSE nodeScan.strategy
        emitted == ~config.nil /\ config.enabled /\ ~forceFullScan
    IN [SCAN_STRATEGY |-> strategy,
        INCREMENTAL_ENABLED |-> emitted,
        MAX_FILE_AGE_HOURS |-> emitted,
        SKIP_UNCHANGED_FILES |-> emitted]

NoScanRun ==
    [ran |-> FALSE, merged |-> FALSE, request |-> ScanRequest("", FALSE, NilConfig),
     strategy |-> "", report |-> <<>>]

ScanCacheFailPoints == {"none", "create", "update"}

\* One scan of node-1 from the cache manager's side: the cache is fetched,
\* the scanner's environment is prepared from it, the scanner runs and
\* reports, and the report is merged into the cache.
IncrementalScan(strategy, forceFullScan, config, report, start, fail) ==
    /\ scanCache.scanCount < MaxScanCount
    /\ fail = "create" => ~scanCache.exists
    /\ LET nodeScan == ScanRequest(strategy, forceFullScan, config)
            got == getScanCache(scanCache, NodeName(1), fail = "create")
            env == prepareIncrementalScanEnv(nodeScan, got.cache, config, clock)
            new == updateScanCache(got.cache, nodeScan, report, clock, start)
        IN /\ start # 0 => (~IsFullScanMerge(nodeScan) /\ ~got.err
                              /\ Len(existingFiles(got.cache.files, report)) > 1)
           /\ scanCache' = IF got.err THEN scanCache
                           ELSE IF fail = "update" THEN got.cache ELSE new
           /\ scanRun' = [ran |-> ~got.err, merged |-> ~got.err /\ fail = "none",
                          request |-> nodeScan, strategy |-> env.SCAN_STRATEGY,
                          report |-> report]
    /\ UNCHANGED <<nsVars, csVars, schedVars, procVars, clock>>

\* The environment of one scan is prepared from the stored cache: the API
\* server has stored the NodeScan with the defaults filled in.  forced is the
\* local forceFullScan of prepareIncrementalScanEnv.
ScanPrepared(strategy, forceFullScan, submitted) ==
    LET nodeScan == ScanRequest(strategy, forceFullScan, WithDefaults(submitted))
        config == nodeScan.incrementalConfig
    IN  /\ scanRun' = [ran |-> TRUE, merged |-> FALSE,
                       request |-> ScanRequest(strategy, forceFullScan, submitted),
                       forced |-> shouldForceFullScan(nodeScan, scanCache, config, clock),
                       env |-> prepareIncrementalScanEnv(nodeScan, scanCache, config, clock)]
        /\ UNCHANGED <<nsVars, csVars, schedVars, procVars, scanCache, clock>>

ClockTick ==
    /\ clock < StartTime + MaxTicks * ClockStep
    /\ clock' = clock + ClockStep
    /\ UNCHANGED <<nsVars, csVars, schedVars, procVars, scanCache, scanRun>>

(***************************************************************************)
(* Operator start-up: main and the StartupChecker.                         *)
(***************************************************************************)
\* requiredRBACRules, one pair per rule and verb.
requiredRBACRules ==
    ({"pods"} \X {"get", "list"})
    \cup ({"pods/log"} \X {"get"})
    \cup ({"jobs"} \X {"create", "get", "list", "watch", "delete"})
    \cup ({"nodes"} \X {"get", "list", "watch"})
    \cup ({"nodescans"} \X {"get", "list", "watch", "create", "update", "patch", "delete"})
    \cup ({"nodescans/status"} \X {"get", "update", "patch"})

\* The answers to the reviews in which at most k are not "allowed".
RECURSIVE ReviewsWith(_)
ReviewsWith(k) ==
    IF k = 0 THEN {[p \in requiredRBACRules |-> "allowed"]}
    ELSE {[r EXCEPT ![q] = answer] :
             r \in ReviewsWith(k - 1), q \in requiredRBACRules,
             answer \in {"allowed", "denied", "error"}}

\* What the cluster answers to the calls of the checks: the Get of the
\* scanner ServiceAccount, each SelfSubjectAccessReview, the namespace List.
\* At most MaxReviewFaults reviews are answered otherwise than "allowed".
Clusters ==
    [serviceAccount : {"found", "notfound", "error"},
     reviews : ReviewsWith(MaxReviewFaults),
     list : {"ok", "error"}]

\* checkScannerServiceAccount: TRUE when it returns nil.
checkScannerServiceAccount(cluster) == cluster.serviceAccount = "found"

\* checkOperatorRBACPermissions: a review that errors is logged and skipped,
\* a denied one is added to missingPermissions.
checkOperatorRBACPermissions(cluster) ==
    LET missingPermissions == {p \in requiredRBACRules : cluster.reviews[p] = "denied"}
    IN  missingPermissions = {}

\* checkAPIServerConnectivity: TRUE when it returns nil.
checkAPIServerConnectivity(cluster) == cluster.list = "ok"

\* RunAllChecks: "" for nil, else the check whose error is returned.
RunAllChecks(cluster) ==
    IF ~checkScannerServiceAccount(cluster) THEN "serviceAccount"
    ELSE IF ~checkOperatorRBACPermissions(cluster) THEN "rbac"
    ELSE IF ~checkAPIServerConnectivity(cluster) THEN "connectivity"
    ELSE ""

\* The operator process before main has run.
NewManager(skipStartupChecks, cluster) ==
    [skipStartupChecks |-> skipStartupChecks, cluster |-> cluster,
     pc |-> "start", checked |-> FALSE, exitCode |-> NoTime, controllers |-> {}]

NoManager ==
    NewManager(TRUE, [serviceAccount |-> "found",
                      reviews |-> [p \in requiredRBACRules |-> "allowed"], list |-> "ok"])

\* main up to the controllers: the checks unless --skip-startup-checks,
\* os.Exit(1) when they fail.
ManagerRunsChecks ==
    LET failed == RunAllChecks(manager.cluster)
    IN  /\ manager.pc = "start"
        /\ manager' =
               IF manager.skipStartupChecks THEN [manager EXCEPT !.pc = "setup"]
               ELSE IF failed # "" THEN [manager EXCEPT !.pc = "exited", !.exitCode = 1]
               ELSE [manager EXCEPT !.pc = "setup", !.checked = TRUE]
        /\ UNCHANGED <<nsVars, csVars, schedVars, cacheVars, scannerConfig, marker,
                       scanners, strategies>>

Controllers == <<"NodeScan", "ClusterScan", "ScanSchedule">>

\* main sets up the next reconciler.
ManagerSetsUpController ==
    LET done == Cardinality(manager.controllers)
    IN  /\ manager.pc = "setup"
        /\ manager' = [manager EXCEPT !.controllers = @ \cup {Controllers[done + 1]},
                                      !.pc = IF done + 1 = Len(Controllers)
                                             THEN "running" ELSE "setup"]
        /\ UNCHANGED <<nsVars, csVars, schedVars, cacheVars, scannerConfig, marker,
                       scanners, strategies>>

(***************************************************************************)
(* The scanner's strategy resolution (incremental.js), for the pods that   *)
(* run on node-1 and share its results directory.                          *)
(***************************************************************************)
ScanStrategySmart == "smart"

ScannerPods == 1..MaxScanners

\* INCREMENTAL_CONFIG as the scanner reads it from its environment.
INCREMENTAL_CONFIG(enabled, strategy, fullScanInterval) ==
    [enabled |-> enabled, strategy |-> strategy, fullScanInterval |-> fullScanInterval]

\* The counter file does not exist.
NoMarker == 0 - 1

IdleScanner == [pc |-> "idle", counter |-> 0]

\* resolveEffectiveStrategy up to the read of the counter file: a pod whose
\* configuration is not enabled or not smart returns at once; otherwise
\* counter is the number in the file, 0 when there is no file.
ScannerReadsMarker(p) ==
    /\ scanners[p].pc = "idle"
    /\ Len(strategies) < MaxRuns
    /\ IF ~scannerConfig.enabled
       THEN strategies' = Append(strategies, ScanStrategyFull) /\ UNCHANGED scanners
       ELSE IF scannerConfig.strategy # ScanStrategySmart
       THEN strategies' = Append(strategies, scannerConfig.strategy) /\ UNCHANGED scanners
       ELSE /\ scanners' = [scanners EXCEPT ![p] =
                               [pc |-> "read",
                                counter |-> IF marker = NoMarker THEN 0 ELSE marker]]
            /\ UNCHANGED strategies
    /\ UNCHANGED <<nsVars, csVars, schedVars, cacheVars, manager, scannerConfig, marker>>

\* resolveEffectiveStrategy from the comparison on: the counter file is set
\* to 0 for a full scan and to counter + 1 for an incremental one; a write
\* that fails (written = FALSE) is ignored.
ScannerResolves(p, written) ==
    LET counter == scanners[p].counter
        full == counter >= scannerConfig.fullScanInterval
    IN  /\ scanners[p].pc = "read"
        /\ marker' = IF ~written THEN marker ELSE IF full THEN 0 ELSE counter + 1
        /\ strategies' = Append(strategies, IF full THEN ScanStrategyFull
                                            ELSE ScanStrategyIncremental)
        /\ scanners' = [scanners EXCEPT ![p] = IdleScanner]
        /\ UNCHANGED <<nsVars, csVars, schedVars, cacheVars, manager, scannerConfig>>

(***************************************************************************)
(* Specifications.                                                         *)
(***************************************************************************)
\* A user creates a NodeScan that belongs to no ClusterScan.
NodeScanCreated(name, node, pol) ==
    /\ ~nodeScans[name].exists
    /\ nodeScans' = [nodeScans EXCEPT ![name] = NewNodeScan(node, pol, "")]
    /\ UNCHANGED <<nodes, policy, jobs, notifications, jobCreations, csVars, schedVars, cacheVars, procVars>>

InitCluster ==
    /\ policy = NoPolicy
    /\ nodeScans = [name \in NodeScanNames |-> NoNodeScan]
    /\ jobs = [j \in JobNames |-> NoJob]
    /\ notifications = [name \in NodeScanNames |-> 0]
    /\ jobCreations = [name \in NodeScanNames |-> 0]
    /\ labelled = {}
    /\ clusterScan = NoClusterScan
    /\ snapshot = NoSnapshot
    /\ scanCache = NoScanCache
    /\ scanRun = NoScanRun
    /\ clock = StartTime

\* No operator process and no scanner process is looked at.
InitScanners ==
    /\ scannerConfig = INCREMENTAL_CONFIG(FALSE, ScanStrategyFull, DefaultFullScanInterval)
    /\ marker = NoMarker
    /\ scanners = [p \in ScannerPods |-> IdleScanner]
    /\ strategies = <<>>

InitProcesses == manager = NoManager /\ InitScanners

InitObjects == InitCluster /\ InitProcesses

InitSchedule ==
    /\ now = 0
    /\ clusterScans = [t \in Times |-> NoScheduled]
    /\ result = Result(NoTime, FALSE)

\* One standalone NodeScan, its Job, its node and its policy.
InitNode ==
    /\ nodes = Nodes
    /\ InitObjects
    /\ InitSchedule
    /\ schedule = NewSchedule(FALSE, "Allow", NoTime)

NextNode ==
    \/ \E pol \in {"", PolicyName} : NodeScanCreated(StandaloneName, NodeName(1), pol)
    \/ NodeScanReconcile(StandaloneName)
    \/ NodeScanDeleted(StandaloneName)
    \/ \E j \in JobNames : PodFails(j)
    \/ \E j \in JobNames : PodSucceeds(j, ScannerLogs)
    \/ \E j \in JobNames : JobTTLExpires(j)
    \/ \E j \in JobNames : JobDeleted(j)
    \/ NodeJoins(NodeName(1))
    \/ NodeLeaves(NodeName(1))
    \/ \E notif \in BOOLEAN : PolicyCreated(notif)
    \/ PolicyDeleted

SpecNode == InitNode /\ [][NextNode]_vars

\* One NodeScan whose pod may print any log.
InitLogs ==
    /\ nodes = Nodes
    /\ InitObjects
    /\ InitSchedule
    /\ schedule = NewSchedule(FALSE, "Allow", NoTime)

NextLogs ==
    \/ \E pol \in {""} : NodeScanCreated(StandaloneName, NodeName(1), pol)
    \/ \E fail \in NodeScanFailPoints, access \in LogAccess :
           NodeScanReconcileLive(StandaloneName, fail, access)
    \/ \E j \in JobNames : PodFails(j)
    \/ \E j \in JobNames : PodSucceeds(j, AnyLogs)

SpecLogs == InitLogs /\ [][NextLogs]_vars

\* One ClusterScan, the nodes it selects and its child NodeScans.
Init ==
    /\ nodes \in SUBSET Nodes
    /\ InitObjects
    /\ InitSchedule
    /\ schedule = NewSchedule(FALSE, "Allow", NoTime)

Children == {ChildName(ClusterScanName, n) : n \in Nodes}

\* The children are reconciled without API failures here; SpecNode explores
\* the failure points of the NodeScan reconciler.
Next ==
    \/ \E concurrent \in 0..1 : ClusterScanCreated(FALSE, "", concurrent)
    \/ \E fail \in ClusterScanFailPoints, order \in Perms(getNodesForScan(clusterScan)),
          createFail \in SUBSET getNodesForScan(clusterScan) :
           ClusterScanReconcileLive(fail, order, createFail)
    \/ \E name \in Children : NodeScanReconcileLive(name, "none", "ok")
    \/ \E j \in JobNames : PodSucceeds(j, {InfectedLog})
    \/ \E n \in Nodes : NodeJoins(n)
    \/ \E n \in Nodes : NodeLeaves(n)

Spec == Init /\ [][Next]_vars

\* The ClusterScan of a fixed node set, with the scheduling the controller
\* runtime gives: a Running ClusterScan is requeued every 30 s and on every
\* change of a child, a NodeScan on every change of its Job, and a started
\* scanner pod runs to its end.
InitLive ==
    /\ nodes = Nodes
    /\ InitObjects
    /\ InitSchedule
    /\ schedule = NewSchedule(FALSE, "Allow", NoTime)

\* A reconcile of the ClusterScan in which no API call fails.
ClusterScanSucceeds ==
    \E order \in Perms(getNodesForScan(clusterScan)) :
        ClusterScanReconcileLive("none", order, {})

\* A reconcile of the ClusterScan in which some API call fails.
ClusterScanFails ==
    \E fail \in ClusterScanFailPoints, order \in Perms(getNodesForScan(clusterScan)),
       createFail \in SUBSET getNodesForScan(clusterScan) :
        /\ fail # "none" \/ createFail # {}
        /\ ClusterScanReconcileLive(fail, order, createFail)

NextLive ==
    \/ \E pol \in {"", PolicyName}, concurrent \in 0..1 :
           ClusterScanCreated(FALSE, pol, concurrent)
    \/ ClusterScanSucceeds
    \/ ClusterScanFails
    \/ \E name \in Children : NodeScanReconcileLive(name, "none", "ok")
    \/ \E j \in JobNames : PodSucceeds(j, {InfectedLog})

FairLive ==
    /\ WF_vars(ClusterScanSucceeds)
    /\ \A name \in Children : WF_vars(NodeScanReconcileLive(name, "none", "ok"))
    /\ \A j \in JobNames : WF_vars(PodSucceeds(j, {InfectedLog}))

SpecLive == InitLive /\ [][NextLive]_vars /\ FairLive

\* One ScanSchedule, the clock and the ClusterScans the schedule creates.
InitSched ==
    /\ nodes = {}
    /\ InitObjects
    /\ InitSchedule
    /\ schedule \in {NewSchedule(suspend, concurrencyPolicy, HistoryLimit) :
                        suspend \in BOOLEAN, concurrencyPolicy \in ConcurrencyPolicies}

NextSched ==
    \/ ScanScheduleReconciles
    \/ Tick
    \/ SuspendToggled
    \/ \E t \in Times, phase \in ScheduledPhases : ScheduledReconciled(t, phase)
    \/ \E t \in Times : ScheduledFinalized(t)

SpecSched == InitSched /\ [][NextSched]_vars

\* The settings a NodeScan can carry: each one unset or set.
NodeScanSettings ==
    [paths : {<<>>, <<"/host/etc">>}, maxConcurrent : {0, 2}, fileTimeout : {0, 1000},
     maxFileSize : {0, 4096},
     resources : {NoResources, ResourceRequirements("250m", "64Mi", "1", "128Mi")},
     priority : {"", "high", "medium", "low"}]

\* The settings a ScanPolicy can carry.
PolicySettings ==
    [paths : {<<>>, <<"/custom/path", "/host/srv">>}, maxConcurrent : {0, 10},
     fileTimeout : {0, 2000}, maxFileSize : {0, 8192},
     resources : {NoResources, ResourceRequirements("1", "1Gi", "2", "2Gi")}]

NodeScanCreatedWith(name, node, pol, settings) ==
    /\ ~nodeScans[name].exists
    /\ nodeScans' =
           [nodeScans EXCEPT ![name] =
               [NewNodeScan(node, pol, "") EXCEPT
                   !.paths = settings.paths, !.maxConcurrent = settings.maxConcurrent,
                   !.fileTimeout = settings.fileTimeout, !.maxFileSize = settings.maxFileSize,
                   !.resources = settings.resources, !.priority = settings.priority]]
    /\ UNCHANGED <<nodes, policy, jobs, notifications, jobCreations, csVars, schedVars, cacheVars, procVars>>

PolicyCreatedWith(settings) ==
    /\ ~policy.exists
    /\ policy' = [NoPolicy EXCEPT
                     !.exists = TRUE,
                     !.paths = settings.paths, !.maxConcurrent = settings.maxConcurrent,
                     !.fileTimeout = settings.fileTimeout, !.maxFileSize = settings.maxFileSize,
                     !.resources = settings.resources]
    /\ UNCHANGED <<nodes, nodeScans, jobs, notifications, jobCreations, csVars, schedVars, cacheVars, procVars>>

\* One NodeScan with any settings, with or without a policy with any
\* settings, and its first reconciles.
InitJob ==
    /\ nodes = Nodes
    /\ InitObjects
    /\ InitSchedule
    /\ schedule = NewSchedule(FALSE, "Allow", NoTime)

NextJob ==
    \/ \E pol \in {"", PolicyName}, settings \in NodeScanSettings :
           NodeScanCreatedWith(StandaloneName, NodeName(1), pol, settings)
    \/ \E settings \in PolicySettings : PolicyCreatedWith(settings)
    \/ \E fail \in {"none", "create", "status"} :
           NodeScanReconcileLive(StandaloneName, fail, "ok")

SpecJob == InitJob /\ [][NextJob]_vars

\* One NodeScan that is created, reconciled, scanned and deleted; nothing
\* else removes its Job.
InitDelete ==
    /\ nodes = Nodes
    /\ InitObjects
    /\ InitSchedule
    /\ schedule = NewSchedule(FALSE, "Allow", NoTime)

NextDelete ==
    \/ NodeScanCreated(StandaloneName, NodeName(1), "")
    \/ NodeScanReconcile(StandaloneName)
    \/ \E j \in JobNames : PodFails(j)
    \/ \E j \in JobNames : PodSucceeds(j, ScannerLogs)
    \/ NodeScanDeleted(StandaloneName)

SpecDelete == InitDelete /\ [][NextDelete]_vars

\* One ClusterScan of a fixed node set that is created, reconciled and
\* deleted; its children are reconciled without API failures.
InitClusterDelete ==
    /\ nodes = Nodes
    /\ InitObjects
    /\ InitSchedule
    /\ schedule = NewSchedule(FALSE, "Allow", NoTime)

NextClusterDelete ==
    \/ \E concurrent \in 0..1 : ClusterScanCreated(FALSE, "", concurrent)
    \/ ClusterScanReconcile
    \/ ClusterScanDeleted
    \/ \E name \in Children : NodeScanReconcileLive(name, "none", "ok")

SpecClusterDelete == InitClusterDelete /\ [][NextClusterDelete]_vars

\* One NodeScan whose spec users update through the admission webhook.
InitAdmission ==
    /\ nodes = Nodes
    /\ InitObjects
    /\ InitSchedule
    /\ schedule = NewSchedule(FALSE, "Allow", NoTime)

\* The specs a user may submit: any node name or none, a priority, a
\* concurrency inside or outside the admitted range.
NextAdmission ==
    \/ \E node \in Nodes : NodeScanCreated(StandaloneName, node, "")
    \/ \E node \in Nodes \cup {""}, priority \in {"", "high", "urgent"},
          maxConcurrent \in {0, MaxNodeScanConcurrent, MaxNodeScanConcurrent + 1} :
           NodeScanUpdated(StandaloneName, node, priority, maxConcurrent)
    \/ NodeScanReconcile(StandaloneName)
    \/ \E j \in JobNames : PodSucceeds(j, {CleanLog})
    \/ NodeScanDeleted(StandaloneName)

SpecAdmission == InitAdmission /\ [][NextAdmission]_vars

\* The operator process alone: main started with either flag value against a
\* cluster that answers the checks in any way.
InitStartup ==
    /\ nodes = Nodes
    /\ InitCluster
    /\ InitSchedule
    /\ schedule = NewSchedule(FALSE, "Allow", NoTime)
    /\ InitScanners
    /\ manager \in {NewManager(skipStartupChecks, cluster) :
                        skipStartupChecks \in BOOLEAN, cluster \in Clusters}

NextStartup ==
    \/ ManagerRunsChecks
    \/ ManagerSetsUpController

SpecStartup == InitStartup /\ [][NextStartup]_vars

\* The scanner pods of node-1 alone, under any configuration.
InitSmart ==
    /\ nodes = Nodes
    /\ InitCluster
    /\ InitSchedule
    /\ schedule = NewSchedule(FALSE, "Allow", NoTime)
    /\ manager = NoManager
    /\ scannerConfig \in {INCREMENTAL_CONFIG(enabled, strategy, fullScanInterval) :
                              enabled \in BOOLEAN,
                              strategy \in ScanStrategies \cup {ScanStrategySmart},
                              fullScanInterval \in 0..MaxFullScanInterval}
    /\ marker = NoMarker
    /\ scanners = [p \in ScannerPods |-> IdleScanner]
    /\ strategies = <<>>

NextSmart ==
    \/ \E p \in ScannerPods : ScannerReadsMarker(p)
    \/ \E p \in ScannerPods, written \in BOOLEAN : ScannerResolves(p, written)

SpecSmart == InitSmart /\ [][NextSmart]_vars

\* Two standalone NodeScans whose names share their first 54 characters, so
\* that "nodescan-" followed by either name is longer than 63 characters.
LongNames == {"weekly-compliance-scan-of-the-production-cluster-zone-" \o suffix : suffix \in {"a-east", "b-west"}}

InitLong ==
    /\ nodes = Nodes
    /\ policy = NoPolicy
    /\ nodeScans = [name \in LongNames |-> NoNodeScan]
    /\ jobs = [j \in {JobName(name) : name \in LongNames} |-> NoJob]
    /\ notifications = [name \in LongNames |-> 0]
    /\ jobCreations = [name \in LongNames |-> 0]
    /\ labelled = {}
    /\ clusterScan = NoClusterScan
    /\ snapshot = NoSnapshot
    /\ scanCache = NoScanCache
    /\ scanRun = NoScanRun
    /\ clock = StartTime
    /\ InitProcesses
    /\ InitSchedule
    /\ schedule = NewSchedule(FALSE, "Allow", NoTime)

NextLong ==
    \/ \E name \in LongNames, node \in Nodes : NodeScanCreated(name, node, "")
    \/ \E name \in LongNames, fail \in NodeScanFailPoints :
           NodeScanReconcileLive(name, fail, "ok")
    \/ \E j \in DOMAIN jobs : PodFails(j)
    \/ \E j \in DOMAIN jobs : PodSucceeds(j, CompletedLogs)

SpecLong == InitLong /\ [][NextLong]_vars

\* The nodes for which r.Create answers AlreadyExists when the listing is
\* items: their child is stored but not listed.
AlreadyExists(items) ==
    {node \in getNodesForScan(clusterScan) :
        ChildNameTaken(node) /\ \A name \in items : nodeScans[name].nodeName # node}

\* One ClusterScan of a fixed node set whose reconciles read child listings
\* that may be out of date; users update the child of node-1 and delete
\* children, which are reconciled without API failures.  Of the ClusterScan's failure points the
\* one after the creation loop is explored.
InitChildren ==
    /\ nodes = Nodes
    /\ InitObjects
    /\ InitSchedule
    /\ schedule = NewSchedule(FALSE, "Allow", NoTime)

NextChildren ==
    \/ \E concurrent \in 0..1 : ClusterScanCreated(FALSE, "", concurrent)
    \/ \E fail \in {"none", "status"}, order \in Perms(getNodesForScan(clusterScan)),
          items \in SUBSET existingNodeScans(clusterScan) :
           ClusterScanReconcileListing(fail, order, AlreadyExists(items), items)
    \/ \E name \in Children : NodeScanReconcileLive(name, "none", "ok")
    \/ \E name \in Children : NodeScanReconcileDeleting(name, "none")
    \/ \E node \in Nodes, priority \in {"", "high"} :
           NodeScanUpdated(ChildName(ClusterScanName, NodeName(1)), node, priority, 0)
    \/ \E name \in Children : NodeScanDeleted(name)

SpecChildren == InitChildren /\ [][NextChildren]_vars

\* The same ClusterScan when nobody touches its children: the reconciles
\* with their listings, and the children's own progress.
NextWindow ==
    \/ \E concurrent \in 0..1 : ClusterScanCreated(FALSE, "", concurrent)
    \/ \E fail \in {"none", "status"}, order \in Perms(getNodesForScan(clusterScan)),
          items \in SUBSET existingNodeScans(clusterScan) :
           ClusterScanReconcileListing(fail, order, AlreadyExists(items), items)
    \/ \E name \in Children : NodeScanReconcileLive(name, "none", "ok")
    \/ \E j \in JobNames : PodSucceeds(j, {CleanLog})

SpecWindow == InitChildren /\ [][NextWindow]_vars

\* The preparation of a scan alone, from any stored cache: the counter at 0,
\* below, at and above the submitted intervals and the default interval; the
\* last full scan exactly one expiration period ago or a second more, for
\* the submitted period and the default one; the last incremental scan
\* never or an hour ago.
PrepareTime == 200 * SecondsPerHour

StoredCaches ==
    {[NoScanCache EXCEPT !.exists = TRUE, !.nodeName = NodeName(1), !.scanCount = c,
                         !.lastFullScan = f, !.lastIncrementalScan = i] :
        c \in 0..MaxScanCount \cup {DefaultBaselineInterval - 1, DefaultBaselineInterval},
        f \in {PrepareTime - e * SecondsPerHour - d :
                  e \in {1, DefaultCacheExpiration}, d \in {0, 1}},
        i \in {0, PrepareTime - SecondsPerHour}}

\* The configs a user may submit; 0 is a field left out.
SubmittedConfigs ==
    {NilConfig} \cup
    {[IncrementalScanConfig(enabled, n, e) EXCEPT !.minTimeBetweenScans = m] :
        enabled \in BOOLEAN, n \in 0..MaxBaselineInterval, e \in {0, 1}, m \in {0, 2}}

InitPrepare ==
    /\ nodes = Nodes
    /\ policy = NoPolicy
    /\ nodeScans = [name \in NodeScanNames |-> NoNodeScan]
    /\ jobs = [j \in JobNames |-> NoJob]
    /\ notifications = [name \in NodeScanNames |-> 0]
    /\ jobCreations = [name \in NodeScanNames |-> 0]
    /\ labelled = {}
    /\ clusterScan = NoClusterScan
    /\ snapshot = NoSnapshot
    /\ scanCache \in StoredCaches
    /\ scanRun = [ran |-> FALSE, merged |-> FALSE,
                  request |-> ScanRequest("", FALSE, NilConfig), forced |-> FALSE,
                  env |-> [SCAN_STRATEGY |-> "", INCREMENTAL_ENABLED |-> FALSE,
                           MAX_FILE_AGE_HOURS |-> FALSE, SKIP_UNCHANGED_FILES |-> FALSE]]
    /\ clock = PrepareTime
    /\ InitProcesses
    /\ InitSchedule
    /\ schedule = NewSchedule(FALSE, "Allow", NoTime)

NextPrepare ==
    \E strategy \in ScanStrategies \cup {""}, forceFullScan \in BOOLEAN,
       submitted \in SubmittedConfigs :
        ScanPrepared(strategy, forceFullScan, submitted)

SpecPrepare == InitPrepare /\ [][NextPrepare]_vars

\* The cache manager alone: scans of node-1 one after the other.
InitCache ==
    /\ nodes = Nodes
    /\ InitObjects
    /\ InitSchedule
    /\ schedule = NewSchedule(FALSE, "Allow", NoTime)

NextCache ==
    \/ \E strategy \in ScanStrategies, forceFullScan \in BOOLEAN,
          config \in IncrementalConfigs, report \in SmallReports(clock),
          start \in 0..MaxMapStart, fail \in ScanCacheFailPoints :
            IncrementalScan(strategy, forceFullScan, config, report, start, fail)
    \/ ClockTick

SpecCache == InitCache /\ [][NextCache]_vars

\* The cache manager on a node with more files than the cache holds.
NextBulk ==
    \/ \E strategy \in ScanStrategies, start \in 0..MaxMapStart,
       report \in SmallReports(clock) \cup {BulkReport(clock), ExtraReport(clock)} :
        IncrementalScan(strategy, FALSE, NilConfig, report, start, "none")
    \/ ClockTick

SpecBulk == InitCache /\ [][NextBulk]_vars

(***************************************************************************)
(* Properties.                                                             *)
(***************************************************************************)
Min(a, b) == IF a < b THEN a ELSE b

PhaseRank(phase) ==
    IF phase = "" THEN 0
    ELSE IF phase = NodeScanPhasePending THEN 1
    ELSE IF phase = NodeScanPhaseRunning THEN 2
    ELSE 3

RunningChildren ==
    CountPhase(existingNodeScans(clusterScan), NodeScanPhaseRunning)

\* C1: the number of children in phase Running and status.runningNodes never
\* exceed the cap (spec.concurrent, 3 when it is 0), under any interleaving
\* of the two reconcilers.
C1_RunningWithinCap ==
    clusterScan.exists =>
        /\ RunningChildren <= Concurrent(clusterScan)
        /\ clusterScan.runningNodes <= Concurrent(clusterScan)

\* C2: the phase of a NodeScan only moves forward along
\* Pending -> Running -> {Completed, Failed}, and a terminal phase is never
\* changed by any later step.
C2_PhaseMonotone ==
    [][\A name \in NodeScanNames :
          (nodeScans[name].exists /\ nodeScans'[name].exists) =>
              /\ PhaseRank(nodeScans[name].phase) <= PhaseRank(nodeScans'[name].phase)
              /\ nodeScans[name].phase \in NodeScanTerminal =>
                     nodeScans'[name].phase = nodeScans[name].phase]_vars

\* C3: over the lifetime of a NodeScan at most one Job is ever created for
\* it, also after its finished Job was removed.
C3_AtMostOneJob ==
    \A name \in NodeScanNames : jobCreations[name] <= 1

\* The children of the schedule that are in no terminal phase.
ActiveScheduled ==
    {t \in Times : clusterScans[t].exists /\ clusterScans[t].phase \notin ClusterScanTerminal}

\* C4: with concurrencyPolicy Forbid no step creates a ClusterScan while a
\* non-terminal child of the schedule exists.
C4_ForbidNoOverlap ==
    [][(schedule.concurrencyPolicy = "Forbid" /\ ActiveScheduled # {}) =>
          \A t \in Times : clusterScans'[t].exists => clusterScans[t].exists]_vars

\* C5: a reconcile of a suspended ScanSchedule creates and deletes no
\* ClusterScan; when it returns without error it has stored
\* status.nextScheduleTime = nextRun and asks for a requeue at nextRun.
C5_SuspendedReconcile ==
    [][(schedule.suspend /\ ScanScheduleReconciles) =>
          /\ clusterScans' = clusterScans
          /\ ~result'.err =>
                 /\ schedule'.nextScheduleTime = CronNext(now)
                 /\ result'.requeueAfter = CronNext(now) - now]_vars

\* A suspended Allow schedule that is due, whose status was written at the
\* current time and which has no ClusterScan of the current time: the
\* reconcile that wrote it took the suspended path.
C5_Witness ==
    /\ schedule.suspend
    /\ schedule.concurrencyPolicy = "Allow"
    /\ schedule.lastScheduleTime # NoTime
    /\ CronNext(schedule.lastScheduleTime) <= now
    /\ schedule.nextScheduleTime = CronNext(now)
    /\ ~result.err
    /\ result.requeueAfter = CronNext(now) - now
    /\ ~clusterScans[now].exists
    /\ ActiveScheduled # {}

\* C6: every aggregate status written to the ClusterScan has
\* completedNodes + failedNodes <= totalNodes, and its phase is terminal iff
\* the two are equal.
C6_CountersWithinTotal ==
    (clusterScan.exists /\ clusterScan.phase \in {ClusterScanPhaseRunning} \cup ClusterScanTerminal) =>
        /\ clusterScan.completedNodes + clusterScan.failedNodes <= clusterScan.totalNodes
        /\ clusterScan.phase \in ClusterScanTerminal <=>
               clusterScan.completedNodes + clusterScan.failedNodes = clusterScan.totalNodes

\* C7: once a reconcile has written totalNodes, no later step changes it and
\* no NodeScan is created for a node outside the node set of that reconcile.
C7_NodeSetFixed ==
    [][(clusterScan.exists /\ snapshot.taken /\ clusterScan'.exists) =>
          /\ clusterScan'.totalNodes = clusterScan.totalNodes
          /\ \A name \in NodeScanNames :
                 (~nodeScans[name].exists /\ nodeScans'[name].exists) =>
                     nodeScans'[name].nodeName \in snapshot.nodes]_vars

\* C8: with a fixed node set and fair scheduling of the reconciles, a
\* ClusterScan eventually has a child NodeScan for every selected node and a
\* terminal phase.
C8_EventuallyTerminal ==
    clusterScan.exists ~>
        /\ clusterScan.phase \in ClusterScanTerminal
        /\ \A n \in getNodesForScan(clusterScan) :
               nodeScans[ChildName(ClusterScanName, n)].exists

\* A terminal ClusterScan over more nodes than its window, every node with
\* its child.
C8_Witness ==
    /\ clusterScan.exists
    /\ clusterScan.phase \in ClusterScanTerminal
    /\ Concurrent(clusterScan) < Cardinality(getNodesForScan(clusterScan))
    /\ \A n \in getNodesForScan(clusterScan) :
           nodeScans[ChildName(ClusterScanName, n)].phase \in NodeScanTerminal

\* C9: sendNotifications dispatches at most once over the lifetime of a
\* NodeScan.
C9_NotifiedOnce ==
    \A name \in NodeScanNames : notifications[name] <= 1

\* C10: a NodeScan in a terminal phase has filesInfected <= filesScanned and
\* at most min(filesInfected, 100) entries in infectedFiles, whatever the pod
\* printed.
C10_CountersConsistent ==
    \A name \in NodeScanNames :
        (nodeScans[name].exists /\ nodeScans[name].phase \in NodeScanTerminal) =>
            /\ nodeScans[name].filesInfected <= nodeScans[name].filesScanned
            /\ Len(nodeScans[name].infectedFiles)
                   <= Min(nodeScans[name].filesInfected, MaxInfectedFiles)

\* C11: in every reachable ScanCache the file list has at most 10 000 entries
\* and no two entries have the same path.
C11_CacheBounded ==
    /\ Len(scanCache.files) <= CacheLimit
    /\ UniquePaths(scanCache.files)

\* A step of the cache manager that merged a scan's report.
ScanMerged == clock' = clock /\ scanRun'.merged

\* C12: after the merge that follows a scan which ran as a full scan (its
\* SCAN_STRATEGY was full, for whatever reason), the cache's files are the
\* scanner's report, lastFullScan is the time of the merge and scanCount is 0.
C12_FullScanReplaces ==
    [][(ScanMerged /\ scanRun'.strategy = ScanStrategyFull)
        => /\ scanCache'.files = scanRun'.report
           /\ scanCache'.lastFullScan = clock
           /\ scanCache'.scanCount = 0]_vars

\* C13: with incremental scanning enabled, strategy incremental and
\* baselineInterval N, scanCount never exceeds N, the scan made when
\* scanCount = N runs as a full scan and resets the counter, and a scan made
\* below N on a cache that has not expired runs incrementally.
C13_BaselineInterval ==
    [][LET request == scanRun'.request
           config == request.incrementalConfig
           N == config.baselineInterval
       IN (/\ ScanMerged
           /\ request.strategy = ScanStrategyIncremental
           /\ ~request.forceFullScan
           /\ ~config.nil /\ config.enabled)
          => /\ scanCache'.scanCount <= N
             /\ scanCache.scanCount = N
                  => /\ scanRun'.strategy = ScanStrategyFull
                     /\ scanCache'.scanCount = 0
             /\ (/\ scanCache.scanCount < N
                 /\ clock - scanCache.lastFullScan <= config.cacheExpiration * SecondsPerHour)
                  => scanRun'.strategy = ScanStrategyIncremental]_vars

\* The value resolution the documentation describes: the NodeScan's value
\* when set, else the policy's when set, else the default.
Effective(own, ownSet, fromPolicy, policySet, default) ==
    IF ownSet THEN own ELSE IF policySet THEN fromPolicy ELSE default

\* A step in which the reconciler created the Job of s1.
JobCreated ==
    /\ ~jobs[JobName(StandaloneName)].exists
    /\ jobs'[JobName(StandaloneName)].exists

\* The policy the NodeScan s1 references, fetched.
Referenced == nodeScans[StandaloneName].scanPolicy # "" /\ policy.exists

\* C14: paths, max-concurrent, per-file timeout and max file size in the
\* Job's environment are the NodeScan's value when set, otherwise the
\* referenced policy's value when set, otherwise the default.
C14_EffectiveValues ==
    [][JobCreated =>
        LET ns == nodeScans[StandaloneName]
            env == jobs'[JobName(StandaloneName)].env
        IN  /\ env.PATHS_TO_SCAN =
                 Effective(Join(ns.paths, ","), ns.paths # <<>>,
                           Join(policy.paths, ","), Referenced /\ policy.paths # <<>>,
                           "/host/var/lib,/host/opt")
            /\ env.MAX_CONCURRENT =
                 Effective(ToString(ns.maxConcurrent), ns.maxConcurrent # 0,
                           ToString(policy.maxConcurrent),
                           Referenced /\ policy.maxConcurrent # 0, "5")
            /\ env.FILE_TIMEOUT =
                 Effective(ToString(ns.fileTimeout), ns.fileTimeout # 0,
                           ToString(policy.fileTimeout),
                           Referenced /\ policy.fileTimeout # 0, "300000")
            /\ env.MAX_FILE_SIZE =
                 Effective(ToString(ns.maxFileSize), ns.maxFileSize # 0,
                           ToString(policy.maxFileSize),
                           Referenced /\ policy.maxFileSize # 0, "104857600")]_vars

\* A Job whose four values come from the policy, next to one whose values
\* come from the NodeScan although the policy sets them too.
C14_Witness ==
    LET ns == nodeScans[StandaloneName]
        job == jobs[JobName(StandaloneName)]
    IN  /\ job.exists /\ ns.scanPolicy = PolicyName /\ policy.exists
        /\ ns.paths = <<>> /\ ns.maxConcurrent # 0 /\ ns.fileTimeout = 0 /\ ns.maxFileSize # 0
        /\ policy.paths # <<>> /\ policy.maxConcurrent # 0
        /\ policy.fileTimeout # 0 /\ policy.maxFileSize # 0
        /\ job.env = [PATHS_TO_SCAN |-> "/custom/path,/host/srv", MAX_CONCURRENT |-> "2",
                      FILE_TIMEOUT |-> "2000", MAX_FILE_SIZE |-> "4096"]

\* C15: the scanner container's resources are the NodeScan's when it sets
\* them, otherwise the referenced policy's when it sets them, otherwise the
\* band of spec.priority (high, low, or the default band for medium and unset).
C15_PriorityBand ==
    [][JobCreated =>
        LET ns == nodeScans[StandaloneName]
        IN  jobs'[JobName(StandaloneName)].resources =
                Effective(ns.resources, ~ns.resources.nil,
                          policy.resources, Referenced /\ ~policy.resources.nil,
                          GetResourcesForPriority(ns.priority))]_vars

\* Whether the NodeScan's node, or else its referenced policy, is missing.
NodeMissing(ns) == ns.nodeName \notin nodes

PolicyMissing(ns) == ~NodeMissing(ns) /\ ns.scanPolicy # "" /\ ~policy.exists

\* C16: one reconcile of a NodeScan whose node does not exist creates no Job
\* and, when it returns without error, leaves phase Failed with a condition
\* of type NodeNotFound; with the node present and the referenced policy
\* missing, likewise with a condition of type ScanPolicyNotFound.
C16_MissingNodeOrPolicy ==
    [][\A fail \in NodeScanFailPoints, access \in LogAccess :
        LET ns == nodeScans[StandaloneName]
            job == jobs[JobName(StandaloneName)]
        IN  (/\ NodeMissing(ns) \/ PolicyMissing(ns)
             /\ NodeScanReconcileLive(StandaloneName, fail, access))
            => /\ jobs' = jobs
               /\ jobCreations' = jobCreations
               /\ ~NodeScanResult(ns, job, fail, access).err
                    => /\ nodeScans'[StandaloneName].phase = "Failed"
                       /\ \E c \in nodeScans'[StandaloneName].conditions :
                             c.type = IF NodeMissing(ns) THEN "NodeNotFound"
                                      ELSE "ScanPolicyNotFound"]_vars

\* A NodeScan without any Job that two reconciles failed: one for the missing
\* policy, one for the missing node.
C16_Witness ==
    LET ns == nodeScans[StandaloneName]
    IN  /\ ns.exists /\ ns.phase = "Failed"
        /\ NodeMissing(ns) /\ ns.scanPolicy # "" /\ ~policy.exists
        /\ {"NodeNotFound", "ScanPolicyNotFound"} \subseteq {c.type : c \in ns.conditions}
        /\ jobCreations[StandaloneName] = 0
        /\ ~jobs[JobName(StandaloneName)].exists

C18_CompletionParsed ==
    [][\A fail \in NodeScanFailPoints, access \in {"ok", "failedpod"} :
        LET ns == nodeScans[StandaloneName]
            job == jobs[JobName(StandaloneName)]
            after == nodeScans'[StandaloneName]
        IN  (/\ job.exists /\ job.succeeded > 0 /\ job.owner = StandaloneName
             /\ ns.phase # "Completed"
             /\ \E i \in DOMAIN job.log : IsCompletion(job.log[i])
             /\ ~NodeMissing(ns) /\ ~PolicyMissing(ns)
             /\ NodeScanReconcileLive(StandaloneName, fail, access)
             /\ ~NodeScanResult(ns, job, fail, access).err)
            => /\ after.phase = "Completed"
               /\ after.completionTime
               /\ \E i \in DOMAIN job.log :
                     /\ IsCompletion(job.log[i])
                     /\ after.filesScanned = job.log[i].files_scanned
                     /\ after.filesInfected = job.log[i].files_infected
                     /\ after.filesSkipped = job.log[i].files_skipped
                     /\ after.errorCount = job.log[i].errors_count]_vars

\* C19: when the NodeScan s1 of node-1 is Completed, the ScanCache record of
\* node-1 exists and a merge has set its lastFullScan or lastIncrementalScan.
C19_CompletedCached ==
    LET ns == nodeScans[StandaloneName]
    IN  (ns.exists /\ ns.phase = "Completed")
        => /\ scanCache.exists
           /\ scanCache.nodeName = ns.nodeName
           /\ scanCache.lastFullScan > 0 \/ scanCache.lastIncrementalScan > 0

\* C20: a reconcile of a NodeScan with deletion timestamp and finalizer
\* creates no Job and leaves status.phase as it is; it touches no Job but the
\* one named in status.jobRef; when deleting that Job fails the finalizer
\* stays; when the reconcile returns without error the Job named in
\* status.jobRef is gone (whether or not it existed) and the finalizer is
\* removed, which lets the API server drop the NodeScan.
C20_DeletionReconcile ==
    [][\A fail \in {"none", "deleteJob", "finalizer"} :
        LET ns == nodeScans[StandaloneName]
            after == nodeScans'[StandaloneName]
        IN  (/\ ns.deleting /\ ns.finalizer
             /\ NodeScanReconcileDeleting(StandaloneName, fail))
            => /\ \A j \in JobNames : jobs'[j].exists => jobs'[j] = jobs[j]
               /\ \A j \in JobNames \ {ns.jobRef} : jobs'[j] = jobs[j]
               /\ jobCreations'[StandaloneName] <= jobCreations[StandaloneName]
               /\ after.exists => after.phase = ns.phase
               /\ fail = "deleteJob" => after = ns /\ jobs' = jobs
               /\ fail = "finalizer" => after = ns
               /\ fail # "deleteJob" => (ns.jobRef # "" => ~jobs'[ns.jobRef].exists)
               /\ fail = "none" => ~after.exists]_vars

\* A NodeScan with deletion timestamp whose Job is already deleted and whose
\* finalizer is still there: the first half of a deletion reconcile.
C20_Witness ==
    LET ns == nodeScans[StandaloneName]
    IN  /\ ns.exists /\ ns.deleting /\ ns.finalizer
        /\ ns.phase = "Completed"
        /\ ns.jobRef = "nodescan-s1" /\ ~jobs["nodescan-s1"].exists

C22_PhaseFromCounts ==
    LET cs == clusterScan
        done == cs.completedNodes + cs.failedNodes
    IN  (cs.exists /\ cs.phase \notin {"", ClusterScanPhasePending})
        => cs.phase = IF done < cs.totalNodes THEN ClusterScanPhaseRunning
                      ELSE IF cs.failedNodes = 0 THEN ClusterScanPhaseCompleted
                      ELSE IF cs.completedNodes = 0 THEN ClusterScanPhaseFailed
                      ELSE ClusterScanPhasePartiallyComplete

\* The scheduled ClusterScans with a phase in `phases` that are neither
\* deleted nor marked for deletion.
Retained(cs, phases) ==
    {t \in Times : cs[t].exists /\ ~cs[t].deleting /\ cs[t].phase \in phases}

HistoryWithinLimits(sched, cs) ==
    /\ Cardinality(Retained(cs, {ClusterScanPhaseCompleted})) <= SuccessLimit(sched)
    /\ Cardinality(Retained(cs, {ClusterScanPhaseFailed, ClusterScanPhasePartiallyComplete}))
           <= FailedLimit(sched)

\* The non-terminal ClusterScans are left as they are, unless policy Replace
\* deletes the active ones before the new ClusterScan is created.
ActiveKept ==
    schedule.concurrencyPolicy # "Replace"
    => \A t \in Times :
           (clusterScans[t].exists /\ clusterScans[t].phase \notin ClusterScanTerminal)
           => clusterScans'[t] = clusterScans[t]

\* C23: after every reconcile of a non-suspended ScanSchedule that returns
\* without error, at most successfulScansHistoryLimit Completed children and
\* at most failedScansHistoryLimit Failed or PartiallyCompleted children are
\* left that are not deleted or marked for deletion, and no non-terminal
\* child was deleted by history cleanup.
C23_HistoryBounded ==
    [][(~schedule.suspend /\ ScanScheduleReconciles /\ ~result'.err)
       => HistoryWithinLimits(schedule', clusterScans') /\ ActiveKept]_vars

\* The same bound for the reconciles in which the list and the delete calls
\* of cleanupHistory succeed.
HistoryBoundedWhenCleanupSucceeds ==
    [][\A fail \in {"none", "status"} :
        (/\ ~schedule.suspend
         /\ \E order \in Perms(Scheduled(
                    ScanScheduleSync(schedule, clusterScans, now, fail).clusterScans)) :
                ScanScheduleReconcile(fail, order)
         /\ ~ScanScheduleSync(schedule, clusterScans, now, fail).done)
        => HistoryWithinLimits(schedule', clusterScans') /\ ActiveKept]_vars

\* C24: no update that changes spec.nodeName is admitted, so as long as a
\* NodeScan exists its nodeName is the one it was created with: no step
\* changes the nodeName of an existing NodeScan.
C24_NodeNameImmutable ==
    [][\A name \in NodeScanNames :
        (nodeScans[name].exists /\ nodeScans'[name].exists)
        => nodeScans'[name].nodeName = nodeScans[name].nodeName]_vars

\* An update of the NodeScan on node-2 was admitted and stored.
C24_Witness ==
    LET ns == nodeScans[StandaloneName]
    IN  /\ ns.exists /\ ns.nodeName = NodeName(2)
        /\ ns.priority = "high" /\ ns.maxConcurrent = MaxNodeScanConcurrent
        /\ ns.phase = NodeScanPhaseCompleted

\* C25: when the reconcilers are set up after the start-up checks ran, the
\* scanner service account was found, every required (resource, verb) was
\* answered "allowed" by its review and the list call succeeded; when one of
\* these does not hold and the checks are not skipped, the process exits with
\* code 1 and no reconciler is set up.
C25_StartupChecks ==
    LET cluster == manager.cluster
        confirmed == /\ cluster.serviceAccount = "found"
                     /\ \A p \in requiredRBACRules : cluster.reviews[p] = "allowed"
                     /\ cluster.list = "ok"
    IN  /\ manager.checked => confirmed
        /\ (~manager.skipStartupChecks /\ ~confirmed)
           => manager.controllers = {} /\ (manager.pc # "start" => manager.exitCode = 1)

\* C26: under strategy smart with fullScanInterval N the effective strategies
\* resolved on the node are N times incremental, then once full, and so on,
\* and the counter file holds a number from 0 to N.
C26_SmartCycle ==
    LET N == scannerConfig.fullScanInterval
    IN  (scannerConfig.enabled /\ scannerConfig.strategy = ScanStrategySmart)
        => /\ \A i \in 1..Len(strategies) :
                  strategies[i] = IF i % (N + 1) = 0 THEN ScanStrategyFull
                                  ELSE ScanStrategyIncremental
           /\ marker = NoMarker \/ marker \in 0..N

\* C27: a ClusterScan whose phase is Completed, Failed or PartiallyCompleted
\* is not set back to Running, and no NodeScan is created for it any more.
C27_TerminalStays ==
    [][(/\ clusterScan.exists /\ clusterScan'.exists
        /\ clusterScan.phase \in ClusterScanTerminal)
       => /\ clusterScan'.phase # ClusterScanPhaseRunning
          /\ \A name \in Children : nodeScans'[name].exists => nodeScans[name].exists]_vars

\* A reconcile decides that a run is due from the stored lastScheduleTime
\* alone, so the ClusterScans created after the stored lastScheduleTime were
\* all created for the run that is due next.
CreatedForDueRun ==
    {u \in Times : clusterScans[u].exists /\ u > schedule.lastScheduleTime}

\* C28: under policy Allow a reconcile creates a ClusterScan only when none
\* was created yet for the run that is due, also when the status write that
\* followed an earlier creation failed.
C28_OncePerDueTime ==
    [][(/\ schedule.concurrencyPolicy = "Allow"
        /\ \E t \in Times : ~clusterScans[t].exists /\ clusterScans'[t].exists)
       => CreatedForDueRun = {}]_vars

\* A reconcile of the NodeScan in which no call fails returns without error
\* and leaves the NodeScan and its Job as they are: the state a reconcile, or
\* its retry, has returned in.
ReconcileReturned(name) ==
    LET ns == nodeScans[name]
        job == jobs[JobName(name)]
        out == NodeScanSync(name, ns, job, "none", "ok")
    IN  /\ ns.exists /\ ~ns.deleting
        /\ out.ns = ns /\ out.job = job
        /\ ~NodeScanResult(ns, job, "none", "ok").err

\* C29: once the reconcile has returned, a NodeScan whose Job exists and has
\* neither succeeded nor failed is stored with phase Running and with
\* status.jobRef naming that Job.
C29_RunningWhileJobRuns ==
    \A name \in NodeScanNames :
        LET job == jobs[JobName(name)]
        IN  (/\ ReconcileReturned(name)
             /\ job.exists /\ job.succeeded = 0 /\ job.failed = 0)
            => /\ nodeScans[name].phase = NodeScanPhaseRunning
               /\ nodeScans[name].jobRef = JobName(name)

\* C30: the Job whose success or failure makes a reconcile set a NodeScan
\* Completed or Failed was created for that NodeScan and is owned by it,
\* also for names so long that the Job name is cut to 63 characters.
C30_OwnJob ==
    [][\A name \in DOMAIN nodeScans :
        LET job == jobs[JobName(name)]
        IN  (/\ nodeScans[name].exists /\ job.exists
             /\ nodeScans'[name].phase # nodeScans[name].phase
             /\ nodeScans'[name].phase \in NodeScanTerminal
             /\ nodeScans[name].nodeName \in nodes)
            => job.owner = name]_vars

\* C31: whenever the NodeScan s1 is Completed, the pod of its Job printed a
\* completion line and the stored counters are the values of that line; a
\* Job that succeeded without a readable completion line never gives a
\* Completed NodeScan.
C31_CompletedFromCompletionLine ==
    LET ns == nodeScans[StandaloneName]
        job == jobs[JobName(StandaloneName)]
    IN  (ns.exists /\ ns.phase = NodeScanPhaseCompleted /\ job.exists)
        => \E i \in DOMAIN job.log :
              /\ IsCompletion(job.log[i])
              /\ ns.filesScanned = job.log[i].files_scanned
              /\ ns.filesInfected = job.log[i].files_infected
              /\ ns.filesSkipped = job.log[i].files_skipped
              /\ ns.errorCount = job.log[i].errors_count

\* What an error-free reconcile of the ClusterScan does in the current state
\* when the node list comes back in the given order: the nodes it creates a
\* NodeScan for and the status it writes.
ReconcileOutcome(order) ==
    LET cs == clusterScan
        items == existingNodeScans(cs)
        running == CountPhase(items, NodeScanPhaseRunning)
        loop == IF HasFreeSlot(running, Concurrent(cs))
                THEN CreateLoop(order, 1, items, {}, Concurrent(cs),
                                [running |-> running, created |-> {}])
                ELSE [running |-> running, created |-> {}]
    IN  [created |-> loop.created,
         status |-> Aggregate(cs, getNodesForScan(cs), items, loop.running)]

\* C32: after an error-free reconcile of the ClusterScan, a second reconcile
\* with no change to nodes or children in between creates no further NodeScan
\* and writes the same status (phase, counters, child references,
\* completionTime) as the first.
C32_AggregationIdempotent ==
    [][\A order \in Perms(getNodesForScan(clusterScan)) :
        (/\ clusterScan.exists /\ ~clusterScan.deleting
         /\ ClusterScanReconcileLive("none", order, {}))
        => \A again \in Perms(getNodesForScan(clusterScan)) :
              /\ ReconcileOutcome(again)'.created = {}
              /\ ReconcileOutcome(again)'.status = clusterScan']_vars

\* C33: merging the report of a scan into the ScanCache a second time gives
\* the cache the first merge gave: the same file entries, the same scanCount
\* and the same totalFiles, for full-scan merges and for incremental merges.
C33_MergeIdempotent ==
    [][ScanMerged =>
        \A start \in 0..MaxMapStart :
            LET once == scanCache'
                twice == updateScanCache(once, scanRun'.request, scanRun'.report,
                                         clock, start)
            IN  /\ {twice.files[i] : i \in DOMAIN twice.files}
                       = {once.files[i] : i \in DOMAIN once.files}
                /\ twice.scanCount = once.scanCount
                /\ twice.totalFiles = once.totalFiles]_vars

\* The children of the ClusterScan that target a node.
ChildrenOn(node) ==
    {name \in NodeScanNames :
        /\ nodeScans[name].exists
        /\ nodeScans[name].clusterscan = ClusterScanName
        /\ nodeScans[name].nodeName = node}

\* C34: for every node at most one child NodeScan of the ClusterScan targets
\* it, whatever the interleaving of reconciles, failed calls and out-of-date
\* child listings.
C34_OneChildPerNode ==
    \A node \in Nodes : Cardinality(ChildrenOn(node)) <= 1

\* Every node has its child although the status written last lists none of
\* them, and a child was updated and is being scanned.
C34_Witness ==
    /\ clusterScan.exists /\ clusterScan.nodeScans = {}
    /\ \A node \in Nodes : Cardinality(ChildrenOn(node)) = 1
    /\ \E name \in Children :
           nodeScans[name].priority = "high" /\ nodeScans[name].phase = NodeScanPhaseRunning

Entries(files) == {files[i] : i \in DOMAIN files}

\* C35: after an incremental merge the cache holds at most 10 000 entries,
\* and an entry of the merged report that the cache does not hold was not
\* scanned later than any entry the cache kept: the entries kept are the most
\* recent ones, and no reported entry is dropped in favour of an older one.
C35_MostRecentKept ==
    (scanRun.merged /\ ~IsFullScanMerge(scanRun.request)) =>
        /\ Len(scanCache.files) <= CacheLimit
        /\ \A dropped \in Entries(scanRun.report) \ Entries(scanCache.files) :
               \A i \in DOMAIN scanCache.files :
                   scanCache.files[i].lastScanned >= dropped.lastScanned

\* The history bucket of a scheduled ClusterScan: successful or failed.
Bucket(phase) ==
    IF phase = ClusterScanPhaseCompleted THEN "successful"
    ELSE IF phase \in ClusterScanTerminal THEN "failed" ELSE "active"

\* C36: when a reconcile of the schedule deletes a terminal ClusterScan and
\* keeps another one of the same bucket, the deleted one was created before
\* the kept one, whatever the order of the list.  (The ClusterScan of run t
\* is created at time t.)
C36_OldestDeletedFirst ==
    [][\A t, u \in Times :
        (/\ ScanScheduleReconciles
         /\ clusterScans[t].exists /\ ~clusterScans[t].deleting
         /\ clusterScans[u].exists /\ ~clusterScans[u].deleting
         /\ Bucket(clusterScans[t].phase) # "active"
         /\ Bucket(clusterScans[t].phase) = Bucket(clusterScans[u].phase)
         /\ ~clusterScans'[t].exists \/ clusterScans'[t].deleting
         /\ clusterScans'[u].exists /\ ~clusterScans'[u].deleting)
        => t < u]_vars

\* The schedule is due with policy Replace and has active children.
Replacing ==
    /\ ~schedule.suspend /\ schedule.concurrencyPolicy = "Replace"
    /\ IsDue(schedule, now) /\ schedule.active # {}

\* C37: a reconcile of a due schedule with policy Replace and active children
\* deletes every stored child named in status.active, also when the create
\* that follows fails, and when it creates the new ClusterScan and writes the
\* status, that status lists the new ClusterScan as active.
C37_ReplaceDeletesThenCreates ==
    [][(Replacing /\ ScanScheduleReconciles) =>
        /\ \A u \in Times :
               (clusterScans[u].exists /\ ScheduledName(u) \in schedule.active)
               => (~clusterScans'[u].exists \/ clusterScans'[u].deleting)
        /\ (~result'.err /\ ~clusterScans[now].exists /\ clusterScans'[now].exists)
               => ScheduledName(now) \in schedule'.active]_vars

\* The value a submitted field has for the program: the default when left out.
OrDefault(value, default) == IF value = 0 THEN default ELSE value

\* C38: shouldForceFullScan is true exactly when spec.forceFullScan is set, or
\* spec.strategy is full, or the incremental config is absent or disabled, or
\* cache.scanCount >= baselineInterval (7 when left out), or the last full
\* scan is more than cacheExpiration hours old (168 when left out); the
\* minimum time between scans has no part in it.
C38_ForceFullScanRule ==
    [][(scanRun' # scanRun /\ scanRun'.ran) =>
        LET request == scanRun'.request
            config == request.incrementalConfig
        IN  scanRun'.forced <=>
                \/ request.forceFullScan
                \/ request.strategy = ScanStrategyFull
                \/ config.nil \/ ~config.enabled
                \/ scanCache.scanCount
                       >= OrDefault(config.baselineInterval, DefaultBaselineInterval)
                \/ clock - scanCache.lastFullScan
                       > OrDefault(config.cacheExpiration, DefaultCacheExpiration)
                             * SecondsPerHour]_vars

\* An incremental scan was prepared one hour after the last one, with a
\* minimum time of two hours, no interval submitted and the counter at 6: no
\* full scan is forced.
C38_Witness ==
    /\ scanRun.ran /\ ~scanRun.forced
    /\ scanRun.request.strategy = ScanStrategyIncremental
    /\ scanRun.request.incrementalConfig.baselineInterval = 0
    /\ scanRun.request.incrementalConfig.minTimeBetweenScans = 2
    /\ scanCache.scanCount = DefaultBaselineInterval - 1
    /\ scanCache.lastIncrementalScan = clock - SecondsPerHour

\* C39: prepareIncrementalScanEnv sets SCAN_STRATEGY to full when
\* shouldForceFullScan is true or spec.strategy is empty and to spec.strategy
\* otherwise, and it emits INCREMENTAL_ENABLED, MAX_FILE_AGE_HOURS and
\* SKIP_UNCHANGED_FILES exactly when the incremental config is enabled and no
\* full scan is forced.
C39_PreparedEnv ==
    [][(scanRun' # scanRun /\ scanRun'.ran) =>
        LET request == scanRun'.request
            config == request.incrementalConfig
            env == scanRun'.env
            incremental == ~config.nil /\ config.enabled /\ ~scanRun'.forced
        IN  /\ env.SCAN_STRATEGY =
                   IF scanRun'.forced \/ request.strategy = ""
                   THEN ScanStrategyFull ELSE request.strategy
            /\ env.INCREMENTAL_ENABLED <=> incremental
            /\ env.MAX_FILE_AGE_HOURS <=> incremental
            /\ env.SKIP_UNCHANGED_FILES <=> incremental]_vars

\* Strategy incremental, incremental scanning enabled, baselineInterval 7,
\* counter at 7, cache not expired: SCAN_STRATEGY is full and
\* INCREMENTAL_ENABLED is not emitted.
C39_Witness ==
    /\ scanRun.ran
    /\ scanRun.request.strategy = ScanStrategyIncremental /\ ~scanRun.request.forceFullScan
    /\ scanRun.request.incrementalConfig.enabled
    /\ WithDefaults(scanRun.request.incrementalConfig).baselineInterval = 7
    /\ scanCache.scanCount = 7
    /\ clock - scanCache.lastFullScan <= SecondsPerHour
    /\ scanRun.env.SCAN_STRATEGY = ScanStrategyFull
    /\ ~scanRun.env.INCREMENTAL_ENABLED

\* The NodeScans a step creates.
CreatedNodeScans == {name \in NodeScanNames : ~nodeScans[name].exists /\ nodeScans'[name].exists}

\* C40: a reconcile of the ClusterScan whose listing shows r children in phase
\* Running creates at most max(0, cap - r) NodeScans, each for a selected node
\* that had no child, named and labelled as the parent's child of that node.
C40_CreatesWithinWindow ==
    [][CreatedNodeScans # {} =>
       \A fail \in {"none", "status"}, order \in Perms(getNodesForScan(clusterScan)),
          items \in SUBSET existingNodeScans(clusterScan) :
        ClusterScanReconcileListing(fail, order, AlreadyExists(items), items)
        => LET r == CountPhase(items, NodeScanPhaseRunning)
               cap == Concurrent(clusterScan)
           IN  /\ Cardinality(CreatedNodeScans) <= (IF cap > r THEN cap - r ELSE 0)
               /\ \A name \in CreatedNodeScans :
                      \E node \in getNodesForScan(clusterScan) :
                          /\ name = ChildName(ClusterScanName, node)
                          /\ ChildrenOn(node) = {}
                          /\ nodeScans'[name].nodeName = node
                          /\ nodeScans'[name].clusterscan = ClusterScanName]_vars

\* After the first reconcile of a ClusterScan with cap 1 over all the nodes,
\* one NodeScan exists.
C40_Witness ==
    /\ clusterScan.exists /\ clusterScan.concurrent = 1
    /\ clusterScan.totalNodes = MaxNodes /\ clusterScan.runningNodes = 1
    /\ clusterScan.nodeScans = {}
    /\ Cardinality({name \in Children : nodeScans[name].exists}) = 1
    /\ \A name \in Children : nodeScans[name].phase = ""

=============================================================================
